---- MODULE Spec2Model ----
(***************************************************************************)
(* Model of the delta synchronisation engine of execute_qlik_delta.js:     *)
(* QlikDeltaExecutor.execute() (fetch, safe delete, bounded execution,     *)
(* summary, close) and the command line entry that exits the process.      *)
(* The store tables are modelled by what the engine's statements read and  *)
(* write; the engine can be run several times against the same store, as   *)
(* the monthly workflow does.                                              *)
(***************************************************************************)
EXTENDS Integers, Sequences, FiniteSets, TLC

\* ---- bounds of the model ------------------------------------------------
MaxOps == 3        \* rows of qlik_invoice_view_delta
MaxGroups == 2     \* rows of mdm_invoice_qlik (one per mdm_invoice_id)
MaxLimit == 3      \* largest concurrency limit explored
MaxRuns == 2       \* engine runs against the same store
MaxMonths == 3     \* entries of MONTHS explored
MaxTotal == 201    \* longest list handed to the progress counter alone

OpIds == 1..MaxOps
Groups == 1..MaxGroups
Months == 1..MaxMonths     \* positions in the list MONTHS
Stages == {1, 2}

\* values of the column mdm_sql: absent, empty, a statement the store
\* accepts, a statement the store rejects (constraint violation)
SqlNull == "NULL"
SqlEmpty == ""
SqlValues == {SqlNull, SqlEmpty, "ok", "bad"}

VARIABLES
    delta,            \* qlik_invoice_view_delta: invoice_line_id -> mdm_sql
    toRemove,         \* mdm_invoice_line_to_remove_qlik: set of mdm_invoice_id
    deleted_at,       \* mdm_invoice_qlik: mdm_invoice_id -> deleted_at, 0 is NULL
    now,              \* the store's NOW() during the current run
    limit,            \* CONCURRENCY_LIMIT
    safeDelete,       \* this.safeDelete
    runNo,            \* number of the current engine run
    pc,               \* position of execute()
    exitCode,         \* argument of process.exit, meaningful when pc = "exited"
    connOpen,         \* this.sequelize not yet closed
    allQueries,       \* the fetched list
    fetchCalls,       \* calls of fetchDeltaQueries in this run
    results,          \* rows read by safeDeleteChangedInvoiceRows
    sdPhase,          \* progress of safeDeleteChangedInvoiceRows
    markedCount,      \* rows the safe-delete UPDATE marked in this run
    opState,          \* per index of allQueries: queued, sent, answered, done
    startCount,       \* per index: calls of executeSingleQuery
    applied,          \* invoice_line_ids whose statement the store applied in this run
    running,          \* eachOfLimit: running
    nextIdx,          \* eachOfLimit: position of the iterator
    done,             \* eachOfLimit: done
    promise,          \* the promise of executeAllQueries
    processedCount,
    successCount,
    failedQueries,    \* this.failedQueries
    log,              \* console messages of this run (by kind)
    failuresFile,     \* content of failed_queries_<date>.json, <<>> when not written
    summary,          \* counts of the EXECUTION SUMMARY of this run, <<>> when not printed
    issued,           \* statements of the process itself sent to the store, in order
    lateRows,         \* rows of qlik_invoice_view_delta that became executable after the fetch
    snapshots,        \* the progress lines logged: <<processed, success, failed>>, in order
    passesInARow,     \* safe-delete passes completed since a statement last changed the store
    sigint,           \* SIGINT handler: none, closing (awaiting sequelize.close())
    sigPc,            \* position of execute() when the SIGINT handler ran
    refused,          \* indices of allQueries started after sequelize.close() was called
    invoiceExists,    \* workflow: per month, the invoice file is present
    staleLog,         \* workflow: the failure logs hold a section of an earlier run
    mm,               \* workflow: position of the for loop in MONTHS
    wfPc,             \* workflow: loop, retry, running, finished, aborted
    stage,            \* workflow: 1 = Part 1 (ingest), 2 = Part 2 (apply delta)
    attempt,          \* run_cmd_with_retry: attempt
    failfile,         \* workflow: per month, the sections of failed_<YEAR>_<MM>.log
    runningCmds,      \* workflow: commands started and not yet returned
    outcomes,         \* workflow: per month and stage, the exit status of each attempt
    unitState,        \* workflow: per month Pending, Running, Succeeded, FailedAndLogged
    visited,          \* workflow: months whose processing was started, in order
    entryMode,        \* how the executor came to be: none, cli (require.main === module), require
    argv3,            \* command line: process.argv[3], present or not, and its characters
    options,          \* the value of options.safeDelete handed to the constructor
    uploadsDir,       \* server: per extension, the upload stored as uploaded_file<ext>, 0 is no file
    metadataFile,     \* server: originalTableName of file_metadata.json, "none" when not written
    uploadCount,      \* server: uploads stored so far (the latest upload has this number)
    lastTable,        \* server: tableName sent with the latest upload
    req,              \* server: per request, its kind, position and processFile arguments
    thisSequelize,    \* server: fileProcessor.sequelize, 0 is null, else the call that connected
    conns,            \* server: per processFile call, its connection: none, open, closed
    runDate,          \* the calendar date (UTC) of the current engine run
    filesByDate,      \* per date, the content of failed_queries_<date>.json, <<>> when absent
    savedBefore,      \* per date, the content of the failures file when the current run started
    fileExists,       \* invoice runner: per entry of invoice_files, the file is present
    fileIdx,          \* invoice runner: position of the for loop in invoice_files
    runnerPc,         \* invoice runner: none, loop, step2, finished, exited
    runnerExit,       \* invoice runner: exit status of the script
    steps,            \* invoice runner: the commands run so far: <<file, step, status>>
    ingestLog         \* workflow: per month, how each attempt of Part 1 went inside the ingest

storeVars == <<delta, toRemove, deleted_at, now>>
histVars == <<passesInARow>>
configVars == <<limit, safeDelete>>
guardVars == <<results, sdPhase, markedCount>>
poolVars == <<opState, startCount, running, nextIdx, done, promise>>
countVars == <<processedCount, successCount, failedQueries>>
vars == <<delta, toRemove, deleted_at, now, limit, safeDelete, runNo, pc,
          exitCode, connOpen, allQueries, fetchCalls, results, sdPhase,
          markedCount, opState, startCount, applied, running, nextIdx, done,
          promise, processedCount, successCount, failedQueries, log,
          failuresFile, summary, issued, lateRows, snapshots, passesInARow, sigint, sigPc, refused,
          invoiceExists,
          staleLog,
          mm, wfPc, stage, attempt, failfile, runningCmds, outcomes, unitState,
          visited, entryMode, argv3, options,
          uploadsDir, metadataFile, uploadCount, lastTable, req, thisSequelize, conns,
          runDate, filesByDate, savedBefore, fileExists, fileIdx, runnerPc, runnerExit, steps,
          ingestLog>>
sigVars == <<sigint, sigPc, refused>>
wfVars == <<invoiceExists, staleLog, mm, wfPc, stage, attempt, failfile, runningCmds,
            outcomes, unitState, visited>>
cliVars == <<entryMode, argv3, options>>
srvVars == <<uploadsDir, metadataFile, uploadCount, lastTable, req, thisSequelize, conns>>
dateVars == <<runDate, filesByDate, savedBefore>>
runnerVars == <<fileExists, fileIdx, runnerPc, runnerExit, steps>>
ingestVars == <<ingestLog>>
otherVars == <<cliVars, srvVars, dateVars, runnerVars, ingestVars>>
engineVars == <<delta, toRemove, deleted_at, now, limit, safeDelete, runNo, pc,
                exitCode, connOpen, allQueries, fetchCalls, results, sdPhase,
                markedCount, opState, startCount, applied, running, nextIdx, done,
                promise, processedCount, successCount, failedQueries, log,
                failuresFile, summary, issued, lateRows, snapshots, passesInARow, sigint, sigPc,
                refused>>

\* ---- pure parts -----------------------------------------------------------

\* fetchDeltaQueries: WHERE mdm_sql IS NOT NULL AND mdm_sql != '' ORDER BY invoice_line_id
RECURSIVE SelectDelta(_, _)
SelectDelta(d, i) ==
    IF i > MaxOps THEN <<>>
    ELSE IF d[i] # SqlNull /\ d[i] # SqlEmpty
         THEN <<[invoice_line_id |-> i, mdm_sql |-> d[i]]>> \o SelectDelta(d, i + 1)
         ELSE SelectDelta(d, i + 1)

\* the SELECT without its WHERE clause
fetchDeltaQueriesUnfiltered(d) == [i \in 1..MaxOps |-> [invoice_line_id |-> i, mdm_sql |-> d[i]]]

fetchDeltaQueries(d) == SelectDelta(d, 1)

\* the store's answer to one statement
StatementSucceeds(sql) == sql = "ok"

\* executeSingleQuery without its catch: a failed statement rejects the promise
executeSingleQueryRethrows(queryData, ok) ==
    IF ok
    THEN [settled |-> "fulfilled", invoice_line_id |-> queryData.invoice_line_id,
          success |-> TRUE, error |-> "null", mdm_sql |-> "undefined"]
    ELSE [settled |-> "rejected", invoice_line_id |-> queryData.invoice_line_id,
          success |-> FALSE, error |-> "error.message", mdm_sql |-> queryData.mdm_sql]

\* executeSingleQuery returning a failure without the statement it ran
executeSingleQueryNoPayload(queryData, ok) ==
    IF ok
    THEN [settled |-> "fulfilled", invoice_line_id |-> queryData.invoice_line_id,
          success |-> TRUE, error |-> "null", mdm_sql |-> "undefined"]
    ELSE [settled |-> "fulfilled", invoice_line_id |-> queryData.invoice_line_id,
          success |-> FALSE, error |-> "error.message", mdm_sql |-> "undefined"]

\* executeSingleQuery: the value its promise settles with
executeSingleQuery(queryData, ok) ==
    IF ok
    THEN [settled |-> "fulfilled", invoice_line_id |-> queryData.invoice_line_id,
          success |-> TRUE, error |-> "null", mdm_sql |-> "undefined"]
    ELSE [settled |-> "fulfilled", invoice_line_id |-> queryData.invoice_line_id,
          success |-> FALSE, error |-> "error.message", mdm_sql |-> queryData.mdm_sql]

\* a limit one too large handed to async.eachOfLimit
ConcurrencyArgOffByOne == limit + 1

\* line 134: the limit handed to async.eachOfLimit
ConcurrencyArg == limit

\* the final callback firing as soon as the iterator is exhausted
DrainedEarly(e) == e.done

\* eachOfLimit, iterateeCallback: the final callback fires with no error once
\* the iterator is exhausted and nothing is running
Drained(e) == e.done /\ e.running <= 0

\* an iterator that steps over an element
NextElemSkipping(i) == i + 2

\* eachOfLimit, nextElem(): the iterator moves to the following element
NextElem(i) == i + 1

\* a promise that nothing settles
SettleNever(p, outcome) == p

\* once(callback) of eachOfLimit and the promise of lines 163-170: the first
\* call settles the promise, later calls are ignored
Settle(p, outcome) == IF p = "pending" THEN outcome ELSE p

\* a replenish() that starts at most one operation per call
replenishOnce(e, queries) ==
    IF e.running < ConcurrencyArg /\ ~e.done
    THEN IF e.nextIdx > Len(queries)
         THEN [e EXCEPT !.done = TRUE,
                        !.promise = IF e.running <= 0 THEN Settle(@, "resolved") ELSE @]
         ELSE [e EXCEPT !.running = @ + 1,
                        !.nextIdx = NextElem(@),
                        !.opState[e.nextIdx] = "sent",
                        !.startCount[e.nextIdx] = @ + 1]
    ELSE e

\* a replenish() that takes the queued operations from the end of the list
RECURSIVE replenishLastFirst(_, _)
replenishLastFirst(e, queries) ==
    IF e.running < ConcurrencyArg /\ ~e.done
    THEN IF e.nextIdx > Len(queries)
         THEN [e EXCEPT !.done = TRUE,
                        !.promise = IF e.running <= 0 THEN Settle(@, "resolved") ELSE @]
         ELSE replenishLastFirst([e EXCEPT !.running = @ + 1,
                                  !.nextIdx = NextElem(@),
                                  !.opState[Len(queries) + 1 - e.nextIdx] = "sent",
                                  !.startCount[Len(queries) + 1 - e.nextIdx] = @ + 1], queries)
    ELSE e

\* eachOfLimit, replenish(): start queued operations while a slot is free.
\* e = [running, nextIdx, done, promise, opState, startCount]
RECURSIVE replenish(_, _)
replenish(e, queries) ==
    IF e.running < ConcurrencyArg /\ ~e.done
    THEN IF e.nextIdx > Len(queries)
         THEN [e EXCEPT !.done = TRUE,
                        !.promise = IF e.running <= 0 THEN Settle(@, "resolved") ELSE @]
         ELSE replenish([e EXCEPT !.running = @ + 1,
                                  !.nextIdx = NextElem(@),
                                  !.opState[e.nextIdx] = "sent",
                                  !.startCount[e.nextIdx] = @ + 1], queries)
    ELSE e

\* an iterateeCallback that reports the error and goes on starting operations
iterateeCallbackGoesOn(e, err, queries) ==
    LET e1 == [e EXCEPT !.running = @ - 1] IN
    IF err THEN replenish([e1 EXCEPT !.promise = Settle(@, "rejected")], queries)
    ELSE IF Drained(e1) THEN [e1 EXCEPT !.done = TRUE, !.promise = Settle(@, "resolved")]
    ELSE replenish(e1, queries)

\* eachOfLimit, iterateeCallback(err)
iterateeCallback(e, err, queries) ==
    LET e1 == [e EXCEPT !.running = @ - 1] IN
    IF err THEN [e1 EXCEPT !.done = TRUE, !.promise = Settle(@, "rejected")]
    ELSE IF Drained(e1) THEN [e1 EXCEPT !.done = TRUE, !.promise = Settle(@, "resolved")]
    ELSE replenish(e1, queries)

Pool == [running |-> running, nextIdx |-> nextIdx, done |-> done,
         promise |-> promise, opState |-> opState, startCount |-> startCount]

SetPool(e) ==
    /\ running' = e.running
    /\ nextIdx' = e.nextIdx
    /\ done' = e.done
    /\ promise' = e.promise
    /\ opState' = e.opState
    /\ startCount' = e.startCount

\* every result pushed to failedQueries
CollectFailedAlways(fq, result) == Append(fq, result)

\* lines 140-144: collect a failed result
CollectFailed(fq, result) == IF ~result.success THEN Append(fq, result) ELSE fq

\* lines 140-144: count a successful result
CountSuccess(n, result) == IF ~result.success THEN n ELSE n + 1

\* the properties of a result object (lines 105-118)
ResultKeys == {"invoice_line_id", "success", "error", "mdm_sql"}

\* line 231: JSON.stringify(this.failedQueries): one object per element, in
\* order, holding the properties of the result whose value is not undefined
JsonStringify(fq) ==
    [j \in 1..Len(fq) |->
        [f \in {g \in ResultKeys :
                    g \in {"error", "mdm_sql"} => fq[j][g] # "undefined"} |-> fq[j][f]]]

\* a write that leaves an existing file of that name alone
writeFileSyncKeepingFirst(files, name, content) ==
    IF files[name] = <<>> THEN [files EXCEPT ![name] = content] ELSE files

\* line 230: the name of the failures file is built from the date alone
FailuresFileName(date) == date

\* line 231: fs.writeFileSync replaces the content of the file of that name
writeFileSync(files, name, content) == [files EXCEPT ![name] = content]

\* a summary that reports every processed operation as successful
SummaryOfCountingAll(queries, fq) == <<Len(queries), Len(queries), Len(fq)>>

\* lines 209-216: the counts of the summary: processed, successful, failed
SummaryOf(queries, fq) == <<Len(queries), Len(queries) - Len(fq), Len(fq)>>

\* line 238: the status execute() exits with from its catch block
CatchExitCode == 1

\* line 319: the status the command line exits with when execute() returns
DoneExitCode == 0

\* a catch block of execute() that ends the process with status 0
AbortWithStatusZero ==
    /\ pc' = "exited"
    /\ exitCode' = DoneExitCode

\* lines 235-238: catch of execute(): process.exit ends the process at once,
\* the finally block is never reached
Abort ==
    /\ pc' = "exited"
    /\ exitCode' = CatchExitCode

\* a catch of fetchDeltaQueries that logs the error and returns
FetchErrorSwallowed == FALSE

\* lines 38-41: the catch of fetchDeltaQueries rethrows
FetchErrorRethrown == TRUE

\* a catch of safeDeleteChangedInvoiceRows that logs the error and returns
SafeDeleteErrorSwallowed == FALSE

\* lines 87-90: the catch of safeDeleteChangedInvoiceRows rethrows
SafeDeleteErrorRethrown == TRUE

\* execute() going to the executor without the safe-delete pass
AfterFetchSkipsGuard(queries) == "dispatch"

\* execute() testing for an empty list before the safe-delete pass
AfterFetchEmptyFirst(queries) ==
    IF Len(queries) = 0 THEN "dispatch"
    ELSE IF safeDelete THEN "safeDelete" ELSE "dispatch"

\* lines 186-197: what execute() does after the fetch
AfterFetch(queries) == IF safeDelete THEN "safeDelete" ELSE "dispatch"

\* the workflow script is not running: the engine is started from the command line
\* no command line is modelled: the executor exists with its configuration
CliIdle ==
    /\ entryMode = "none"
    /\ argv3 = [present |-> FALSE, text |-> <<>>]
    /\ options = "unset"

MaxRequests == 3   \* requests the upload server receives

ReqIds == 1..MaxRequests
\* the extensions the upload filter lets through
Exts == {".csv", ".xlsx", ".xls"}
NoRequest == [kind |-> "none", st |-> "idle", ext |-> "", content |-> 0, table |-> "",
              expContent |-> 0, expTable |-> ""]

\* the server has just started on an empty uploads directory
SrvIdle ==
    /\ uploadsDir = [e \in Exts |-> 0]
    /\ metadataFile = "none"
    /\ uploadCount = 0
    /\ lastTable = ""
    /\ req = [r \in ReqIds |-> NoRequest]
    /\ thisSequelize = 0
    /\ conns = [r \in ReqIds |-> "none"]

MaxDates == 2      \* calendar dates on which the engine is run

Dates == 1..MaxDates

\* no failures file exists yet
DateIdle ==
    /\ runDate = 1
    /\ filesByDate = [d \in Dates |-> <<>>]
    /\ savedBefore = [d \in Dates |-> <<>>]

MaxFiles == 4      \* entries of invoice_files explored

Files == 1..MaxFiles       \* positions in the list invoice_files

\* the invoice runner is not running
RunnerIdle ==
    /\ fileExists = [f \in Files |-> TRUE]
    /\ fileIdx = 1
    /\ runnerPc = "none"
    /\ runnerExit = 0
    /\ steps = <<>>

\* the inside of the ingest command is not followed
IngestIdle == ingestLog = [m \in Months |-> <<>>]

OthersIdle == CliIdle /\ SrvIdle /\ DateIdle /\ RunnerIdle /\ IngestIdle

WorkflowNotRunning ==
    /\ invoiceExists = [m \in Months |-> TRUE]
    /\ staleLog = FALSE
    /\ mm = 1
    /\ wfPc = "none"
    /\ stage = 1
    /\ attempt = 1
    /\ failfile = [m \in Months |-> <<>>]
    /\ runningCmds = {}
    /\ outcomes = [m \in Months |-> [st \in Stages |-> <<>>]]
    /\ unitState = [m \in Months |-> "Pending"]
    /\ visited = <<>>

\* ---- initial state: a store, a configuration, a constructed executor --------
Init ==
    /\ delta \in [OpIds -> SqlValues]
    /\ toRemove \in SUBSET Groups
    /\ deleted_at = [g \in Groups |-> 0]
    /\ now = 1
    /\ limit \in 1..MaxLimit
    /\ safeDelete \in BOOLEAN
    /\ runNo = 1
    /\ pc = "authenticate"
    /\ exitCode = 0
    /\ connOpen = TRUE
    /\ allQueries = <<>>
    /\ fetchCalls = 0
    /\ results = {}
    /\ sdPhase = "notrun"
    /\ markedCount = 0
    /\ opState = <<>>
    /\ startCount = <<>>
    /\ applied = {}
    /\ running = 0
    /\ nextIdx = 1
    /\ done = FALSE
    /\ promise = "none"
    /\ processedCount = 0
    /\ successCount = 0
    /\ failedQueries = <<>>
    /\ log = {}
    /\ failuresFile = <<>>
    /\ summary = <<>>
    /\ issued = <<>>
    /\ lateRows = {}
    /\ snapshots = <<>>
    /\ passesInARow = 0
    /\ sigint = "none"
    /\ sigPc = "none"
    /\ refused = {}
    /\ WorkflowNotRunning
    /\ OthersIdle

\* ---- execute() ---------------------------------------------------------------

\* the answers a statement of the engine can get: once sequelize.close() has
\* been called the connection manager refuses every new query; the statement
\* that was in flight when close() was called is still answered by the store
Answers == IF connOpen \/ sigPc = pc THEN BOOLEAN ELSE {FALSE}

\* line 103: the query of operation k succeeds when the connection manager
\* accepted it and the store accepts its statement
QuerySucceeds(k) == k \notin refused /\ StatementSucceeds(allQueries[k].mdm_sql)

\* line 103: the operations a replenish started after sequelize.close()
StartedWhileClosed(before, after) ==
    IF connOpen THEN {}
    ELSE {j \in DOMAIN after : after[j] = "sent" /\ before[j] = "queued"}

\* lines 29-34: the SELECT of fetchDeltaQueries
FetchStatement == [verb |-> "SELECT", table |-> "qlik_invoice_view_delta"]

\* lines 67-70: the SELECT of safeDeleteChangedInvoiceRows
RemovalSelect == [verb |-> "SELECT", table |-> "mdm_invoice_line_to_remove_qlik"]

\* lines 80-84: the UPDATE of safeDeleteChangedInvoiceRows
RetireUpdate == [verb |-> "UPDATE", table |-> "mdm_invoice_qlik"]

\* a statement handed to sequelize.query reaches the store unless the
\* connection manager refuses it
Issue(stmt) == IF connOpen \/ sigPc = pc THEN Append(issued, stmt) ELSE issued

\* line 182: await this.sequelize.authenticate()
Authenticate ==
    /\ pc = "authenticate"
    /\ \E ok \in Answers :
        IF ok THEN pc' = "fetch" /\ exitCode' = exitCode ELSE Abort
    /\ UNCHANGED <<histVars, storeVars, configVars, runNo, connOpen, allQueries, fetchCalls,
                   guardVars, poolVars, applied, countVars, log, failuresFile, summary, issued, lateRows, snapshots>>
    /\ UNCHANGED <<wfVars, otherVars, sigVars>>

\* lines 26-42 and 186: fetchDeltaQueries, one SELECT
FetchDeltaQueries ==
    /\ pc = "fetch"
    /\ fetchCalls' = fetchCalls + 1
    /\ \E ok \in Answers :
        IF ok
        THEN /\ allQueries' = fetchDeltaQueries(delta)
             /\ pc' = AfterFetch(allQueries')
             /\ exitCode' = exitCode
             /\ log' = log \cup {"found"}
                          \cup (IF safeDelete THEN {} ELSE {"safeDeleteDisabled"})
        ELSE /\ allQueries' = allQueries
             /\ log' = log \cup {"fetchError"}
             /\ IF FetchErrorRethrown THEN Abort
                ELSE pc' = AfterFetch(allQueries') /\ exitCode' = exitCode
    /\ UNCHANGED <<histVars, storeVars, configVars, runNo, connOpen, guardVars, poolVars,
                   applied, countVars, failuresFile, summary>>
    /\ UNCHANGED <<wfVars, otherVars, sigVars>>
    /\ issued' = Issue(FetchStatement)
    /\ lateRows' = lateRows
    /\ snapshots' = snapshots

\* a pass that sends its UPDATE also when the SELECT returned no row
SafeDeleteSelectAlwaysUpdates ==
    /\ pc = "safeDelete"
    /\ \E ok \in Answers :
        IF ok
        THEN /\ results' = toRemove
             /\ IF FALSE
                THEN /\ sdPhase' = "done"
                     /\ pc' = "dispatch"
                     /\ log' = log \cup {"noRowsToDelete"}
                     /\ passesInARow' = passesInARow + 1
                ELSE /\ sdPhase' = "update"
                     /\ pc' = "safeDeleteUpdate"
                     /\ log' = log
                     /\ passesInARow' = passesInARow
             /\ exitCode' = exitCode
        ELSE /\ results' = results
             /\ sdPhase' = "failed"
             /\ log' = log \cup {"safeDeleteError"}
             /\ passesInARow' = passesInARow
             /\ IF SafeDeleteErrorRethrown THEN Abort
                ELSE pc' = "dispatch" /\ exitCode' = exitCode
    /\ UNCHANGED <<storeVars, configVars, runNo, connOpen, allQueries, fetchCalls,
                   markedCount, poolVars, applied, countVars, failuresFile, summary>>
    /\ UNCHANGED <<wfVars, otherVars, sigVars>>
    /\ issued' = Issue(RemovalSelect)
    /\ lateRows' = lateRows
    /\ snapshots' = snapshots

\* lines 67-78: the SELECT of safeDeleteChangedInvoiceRows
SafeDeleteSelect ==
    /\ pc = "safeDelete"
    /\ \E ok \in Answers :
        IF ok
        THEN /\ results' = toRemove
             /\ IF toRemove = {}
                THEN /\ sdPhase' = "done"
                     /\ pc' = "dispatch"
                     /\ log' = log \cup {"noRowsToDelete"}
                     /\ passesInARow' = passesInARow + 1
                ELSE /\ sdPhase' = "update"
                     /\ pc' = "safeDeleteUpdate"
                     /\ log' = log
                     /\ passesInARow' = passesInARow
             /\ exitCode' = exitCode
        ELSE /\ results' = results
             /\ sdPhase' = "failed"
             /\ log' = log \cup {"safeDeleteError"}
             /\ passesInARow' = passesInARow
             /\ IF SafeDeleteErrorRethrown THEN Abort
                ELSE pc' = "dispatch" /\ exitCode' = exitCode
    /\ UNCHANGED <<storeVars, configVars, runNo, connOpen, allQueries, fetchCalls,
                   markedCount, poolVars, applied, countVars, failuresFile, summary>>
    /\ UNCHANGED <<wfVars, otherVars, sigVars>>
    /\ issued' = Issue(RemovalSelect)
    /\ lateRows' = lateRows
    /\ snapshots' = snapshots

\* lines 80-86: the UPDATE of safeDeleteChangedInvoiceRows
SafeDeleteUpdate ==
    /\ pc = "safeDeleteUpdate"
    /\ \E ok \in Answers :
        IF ok
        THEN /\ deleted_at' = [g \in Groups |-> IF g \in results THEN now ELSE deleted_at[g]]
             /\ markedCount' = Cardinality(results)
             /\ sdPhase' = "done"
             /\ pc' = "dispatch"
             /\ log' = log \cup {"marked"}
             /\ passesInARow' = passesInARow + 1
             /\ exitCode' = exitCode
        ELSE /\ deleted_at' = deleted_at
             /\ markedCount' = markedCount
             /\ sdPhase' = "failed"
             /\ log' = log \cup {"safeDeleteError"}
             /\ passesInARow' = passesInARow
             /\ IF SafeDeleteErrorRethrown THEN Abort
                ELSE pc' = "dispatch" /\ exitCode' = exitCode
    /\ UNCHANGED <<delta, toRemove, now, configVars, runNo, connOpen, allQueries,
                   fetchCalls, results, poolVars, applied, countVars, failuresFile, summary>>
    /\ UNCHANGED <<wfVars, otherVars, sigVars>>
    /\ issued' = Issue(RetireUpdate)
    /\ lateRows' = lateRows
    /\ snapshots' = snapshots

\* lines 194-197: nothing was fetched, execute() returns early
NoQueries ==
    /\ pc = "dispatch"
    /\ Len(allQueries) = 0
    /\ log' = log \cup {"noQueries"}
    /\ pc' = "finally"
    /\ UNCHANGED <<histVars, storeVars, configVars, runNo, exitCode, connOpen, allQueries,
                   fetchCalls, guardVars, poolVars, applied, countVars, failuresFile, summary, issued, lateRows, snapshots>>
    /\ UNCHANGED <<wfVars, otherVars, sigVars>>

\* executeAllQueries reading the staging source again when it is called
ExecuteAllQueriesRefetching ==
    /\ pc = "dispatch"
    /\ Len(allQueries) > 0
    /\ allQueries' = fetchDeltaQueries(delta)
    /\ processedCount' = 0
    /\ successCount' = 0
    /\ SetPool(replenish([running |-> 0, nextIdx |-> 1, done |-> FALSE,
                          promise |-> "pending",
                          opState |-> [k \in 1..Len(allQueries') |-> "queued"],
                          startCount |-> [k \in 1..Len(allQueries') |-> 0]],
                         allQueries'))
    /\ log' = log \cup {"totalQueries"}
    /\ pc' = "executing"
    /\ UNCHANGED <<histVars, storeVars, configVars, runNo, exitCode, connOpen,
                   fetchCalls, guardVars, applied, failedQueries, failuresFile, summary, issued, lateRows, snapshots>>
    /\ refused' = StartedWhileClosed([j \in 1..Len(allQueries') |-> "queued"], opState')
    /\ UNCHANGED <<wfVars, otherVars, sigint, sigPc>>

\* lines 199-205 and 126-134: executeAllQueries is called; eachOfLimit starts
\* the first operations before the call returns its promise
ExecuteAllQueries ==
    /\ pc = "dispatch"
    /\ Len(allQueries) > 0
    /\ processedCount' = 0
    /\ successCount' = 0
    /\ SetPool(replenish([running |-> 0, nextIdx |-> 1, done |-> FALSE,
                          promise |-> "pending",
                          opState |-> [k \in 1..Len(allQueries) |-> "queued"],
                          startCount |-> [k \in 1..Len(allQueries) |-> 0]],
                         allQueries))
    /\ log' = log \cup {"totalQueries"}
    /\ pc' = "executing"
    /\ UNCHANGED <<histVars, storeVars, configVars, runNo, exitCode, connOpen, allQueries,
                   fetchCalls, guardVars, applied, failedQueries, failuresFile, summary, issued, lateRows, snapshots>>
    /\ refused' = StartedWhileClosed([j \in 1..Len(allQueries) |-> "queued"], opState')
    /\ UNCHANGED <<wfVars, otherVars, sigint, sigPc>>

\* line 103: the store executes the statement of a started operation
StoreExec(k) ==
    /\ opState[k] = "sent"
    /\ opState' = [opState EXCEPT ![k] = "answered"]
    /\ applied' = IF QuerySucceeds(k)
                  THEN applied \cup {allQueries[k].invoice_line_id}
                  ELSE applied
    /\ passesInARow' = IF applied' # applied THEN 0 ELSE passesInARow
    /\ UNCHANGED <<storeVars, configVars, runNo, pc, exitCode, connOpen, allQueries,
                   fetchCalls, guardVars, startCount, running, nextIdx, done,
                   promise, countVars, log, failuresFile, summary, issued, lateRows, snapshots>>
    /\ UNCHANGED <<wfVars, otherVars, sigVars>>

\* line 149: a progress line is logged every ProgressEvery results and at the end
ProgressEvery == 100

\* a progress line logged only at the end
ProgressLoggedOnlyAtEnd(processed, total) == processed = total

\* line 149: the test that guards the progress line
ProgressLogged(processed, total) == processed % ProgressEvery = 0 \/ processed = total

\* lines 149-152: the progress line holds processedCount, successCount and
\* this.failedQueries.length
LogProgress(sn, processed, success, failed, total) ==
    IF ProgressLogged(processed, total)
    THEN Append(sn, <<processed, success, failed>>)
    ELSE sn

\* lines 136-162: the promise of executeSingleQuery settles; the then (or
\* catch) handler runs and calls the callback of eachOfLimit, which starts the
\* next queued operation or settles the promise of executeAllQueries
Complete(k) ==
    /\ pc = "executing"
    /\ opState[k] = "answered"
    /\ LET result == executeSingleQuery(allQueries[k], QuerySucceeds(k))
           e == [Pool EXCEPT !.opState[k] = "done"]
       IN IF result.settled = "fulfilled"
          THEN /\ failedQueries' = CollectFailed(failedQueries, result)
               /\ successCount' = CountSuccess(successCount, result)
               /\ processedCount' = processedCount + 1
               /\ SetPool(iterateeCallback(e, FALSE, allQueries))
               /\ snapshots' = LogProgress(snapshots, processedCount', successCount',
                                            Len(failedQueries'), Len(allQueries))
               /\ log' = log
                    \cup (IF ProgressLogged(processedCount', Len(allQueries))
                          THEN {"progress"} ELSE {})
                    \cup (IF promise' = "resolved" THEN {"allProcessed"} ELSE {})
          ELSE /\ UNCHANGED <<countVars, snapshots>>
               /\ SetPool(iterateeCallback(e, TRUE, allQueries))
               /\ log' = log \cup {"unexpectedError"}
    /\ UNCHANGED <<histVars, storeVars, configVars, runNo, pc, exitCode, connOpen, allQueries,
                   fetchCalls, guardVars, applied, failuresFile, summary, issued, lateRows>>
    /\ refused' = refused \cup StartedWhileClosed(opState, opState')
    /\ UNCHANGED <<wfVars, otherVars, sigint, sigPc>>

\* lines 205-238: execute() resumes after await executeAllQueries: summary and
\* failures file when it resolved, the catch block when it rejected
AfterExecuteAllQueries ==
    /\ pc = "executing"
    /\ promise \in {"resolved", "rejected"}
    /\ IF promise = "resolved"
       THEN /\ log' = log \cup {"summary"}
                          \cup (IF Len(failedQueries) > 0 THEN {"failuresSaved"} ELSE {})
            /\ failuresFile' = IF Len(failedQueries) > 0 THEN JsonStringify(failedQueries)
                               ELSE failuresFile
            /\ filesByDate' = IF Len(failedQueries) > 0
                               THEN writeFileSync(filesByDate, FailuresFileName(runDate),
                                                  JsonStringify(failedQueries))
                               ELSE filesByDate
            /\ summary' = SummaryOf(allQueries, failedQueries)
            /\ pc' = "finally"
            /\ exitCode' = exitCode
       ELSE /\ Abort
            /\ UNCHANGED <<log, failuresFile, summary, filesByDate>>
    /\ UNCHANGED <<histVars, storeVars, configVars, runNo, connOpen, allQueries, fetchCalls,
                   guardVars, poolVars, applied, countVars, issued, lateRows, snapshots>>
    /\ UNCHANGED <<wfVars, cliVars, srvVars, runnerVars, ingestVars, runDate, savedBefore, sigVars>>

\* lines 239-243: finally, await this.sequelize.close()
Finally ==
    /\ pc = "finally"
    /\ connOpen' = FALSE
    /\ log' = log \cup {"closed"}
    /\ pc' = "returned"
    /\ UNCHANGED <<histVars, storeVars, configVars, runNo, exitCode, allQueries, fetchCalls,
                   guardVars, poolVars, applied, countVars, failuresFile, summary, issued, lateRows, snapshots>>
    /\ UNCHANGED <<wfVars, otherVars, sigVars>>

CliExitFailsOnFailures ==
    /\ pc = "returned"
    /\ pc' = "exited"
    /\ exitCode' = IF Len(failedQueries) > 0 THEN CatchExitCode ELSE DoneExitCode
    /\ UNCHANGED <<histVars, storeVars, configVars, runNo, connOpen, allQueries, fetchCalls,
                   guardVars, poolVars, applied, countVars, log, failuresFile, summary, issued, lateRows, snapshots>>
    /\ UNCHANGED <<wfVars, otherVars, sigVars>>

\* lines 316-320: execute() returned, the command line exits
CliExit ==
    /\ pc = "returned"
    /\ pc' = "exited"
    /\ exitCode' = DoneExitCode
    /\ UNCHANGED <<histVars, storeVars, configVars, runNo, connOpen, allQueries, fetchCalls,
                   guardVars, poolVars, applied, countVars, log, failuresFile, summary, issued, lateRows, snapshots>>
    /\ UNCHANGED <<wfVars, otherVars, sigVars>>

\* lines 256-261 and 16-20: the engine is started again on the same store (the
\* next stage attempt or month of the workflow): a new process, a new executor
NewRun ==
    /\ pc = "exited"
    /\ runNo < MaxRuns
    /\ runNo' = runNo + 1
    /\ now' = now + 1
    /\ pc' = "authenticate"
    /\ exitCode' = 0
    /\ connOpen' = TRUE
    /\ allQueries' = <<>>
    /\ fetchCalls' = 0
    /\ results' = {}
    /\ sdPhase' = "notrun"
    /\ markedCount' = 0
    /\ opState' = <<>>
    /\ startCount' = <<>>
    /\ applied' = {}
    /\ running' = 0
    /\ nextIdx' = 1
    /\ done' = FALSE
    /\ promise' = "none"
    /\ processedCount' = 0
    /\ successCount' = 0
    /\ failedQueries' = <<>>
    /\ log' = {}
    /\ sigint' = "none"
    /\ sigPc' = "none"
    /\ refused' = {}
    /\ summary' = <<>>
    /\ issued' = <<>>
    /\ lateRows' = {}
    /\ snapshots' = <<>>
    /\ UNCHANGED <<delta, toRemove, deleted_at, configVars, failuresFile, histVars>>
    /\ UNCHANGED <<wfVars, otherVars>>

Next ==
    \/ Authenticate
    \/ FetchDeltaQueries
    \/ SafeDeleteSelect
    \/ SafeDeleteUpdate
    \/ NoQueries
    \/ ExecuteAllQueries
    \/ \E k \in DOMAIN opState : StoreExec(k)
    \/ \E k \in DOMAIN opState : Complete(k)
    \/ AfterExecuteAllQueries
    \/ Finally
    \/ CliExit
    \/ NewRun

Spec == Init /\ [][Next]_vars

\* ---- the interrupt handler ----------------------------------------------------

\* line 276: the status the SIGINT handler exits with
SigintExitCode == 0

\* the engine is waiting for the store or for close(): the handler of a signal
\* runs only then, never in the middle of a synchronous stretch of execute()
AwaitingEvent ==
    /\ pc \in {"authenticate", "fetch", "safeDelete", "safeDeleteUpdate", "executing",
               "returned"}
    /\ pc = "executing" => promise = "pending"

\* lines 269-272: SIGINT is delivered to the running engine; the handler logs
\* and calls executor.sequelize.close(), which refuses new queries from then on
\* and resolves when the queries in flight have returned their connections
Sigint ==
    /\ AwaitingEvent
    /\ sigint = "none"
    /\ sigint' = "closing"
    /\ sigPc' = pc
    /\ connOpen' = FALSE
    /\ log' = log \cup {"interrupt"}
    /\ UNCHANGED <<histVars, storeVars, configVars, runNo, pc, exitCode, allQueries,
                   fetchCalls, guardVars, poolVars, applied, countVars, failuresFile, summary, issued, lateRows, snapshots,
                   refused, wfVars, otherVars>>

\* lines 272-276: close() has settled, the handler calls process.exit(0)
SigintExit ==
    /\ AwaitingEvent
    /\ sigint = "closing"
    /\ pc = sigPc => pc \in {"executing", "returned"}
    /\ \A k \in DOMAIN opState : opState[k] # "sent"
    /\ pc' = "exited"
    /\ exitCode' = SigintExitCode
    /\ UNCHANGED <<histVars, storeVars, configVars, runNo, connOpen, allQueries,
                   fetchCalls, guardVars, poolVars, applied, countVars, log,
                   failuresFile, summary, issued, lateRows, snapshots, sigVars, wfVars, otherVars>>

SigNext == Next \/ Sigint \/ SigintExit

SigSpec == Init /\ [][SigNext]_vars

\* ---- a fault in the executor's own coordination -------------------------------------

\* lines 157-162: the promise chain of operation k rejects for a reason other
\* than the operation's statement (executeSingleQuery rejects, or the then
\* handler throws before it calls the callback): the catch handler logs the
\* error and calls callback(error)
UnexpectedError(k) ==
    /\ pc = "executing"
    /\ opState[k] = "answered"
    /\ SetPool(iterateeCallback([Pool EXCEPT !.opState[k] = "done"], TRUE, allQueries))
    /\ log' = log \cup {"unexpectedError"}
    /\ UNCHANGED <<histVars, storeVars, configVars, runNo, pc, exitCode, connOpen,
                   allQueries, fetchCalls, guardVars, applied, countVars, failuresFile,
                   summary, issued, lateRows, snapshots, sigVars, wfVars, otherVars>>

\* one run of the process in which a then handler may throw
FaultNext ==
    \/ Authenticate
    \/ FetchDeltaQueries
    \/ SafeDeleteSelect
    \/ SafeDeleteUpdate
    \/ NoQueries
    \/ ExecuteAllQueries
    \/ \E k \in DOMAIN opState : StoreExec(k)
    \/ \E k \in DOMAIN opState : Complete(k)
    \/ AfterExecuteAllQueries
    \/ Finally
    \/ CliExit
    \/ \E k \in DOMAIN opState : UnexpectedError(k)

FaultSpec == Init /\ [][FaultNext]_vars

\* ---- counts-only mode (lines 279-313) -----------------------------------------------

\* counts-only statements that include the UPDATE of the safe-delete pass
CountsQueriesWithUpdate ==
    <<[verb |-> "SELECT", table |-> "qlik_invoice_view_delta"], RetireUpdate>>

\* lines 287 and 291-293: SELECT COUNT(*) ..., SELECT ... GROUP BY client_yonka_entity
CountsQueries ==
    <<[verb |-> "SELECT", table |-> "qlik_invoice_view_delta"],
      [verb |-> "SELECT", table |-> "qlik_invoice_view_delta"]>>

\* what the store does with mdm_invoice_qlik when it accepts a statement
StoreEffect(stmt) ==
    IF stmt.verb = "UPDATE" /\ stmt.table = "mdm_invoice_qlik"
    THEN [g \in Groups |-> IF g \in toRemove THEN now ELSE deleted_at[g]]
    ELSE deleted_at

\* lines 256-261, 280: the command line was given mode flag 1
CountsInit ==
    /\ delta \in [OpIds -> SqlValues]
    /\ toRemove \in SUBSET Groups
    /\ deleted_at = [g \in Groups |-> 0]
    /\ now = 1
    /\ limit \in 1..MaxLimit
    /\ safeDelete \in BOOLEAN
    /\ runNo = 1
    /\ pc = "countsAuthenticate"
    /\ exitCode = 0
    /\ connOpen = TRUE
    /\ allQueries = <<>>
    /\ fetchCalls = 0
    /\ results = {}
    /\ sdPhase = "notrun"
    /\ markedCount = 0
    /\ opState = <<>>
    /\ startCount = <<>>
    /\ applied = {}
    /\ running = 0
    /\ nextIdx = 1
    /\ done = FALSE
    /\ promise = "none"
    /\ processedCount = 0
    /\ successCount = 0
    /\ failedQueries = <<>>
    /\ log = {}
    /\ failuresFile = <<>>
    /\ summary = <<>>
    /\ issued = <<>>
    /\ lateRows = {}
    /\ snapshots = <<>>
    /\ passesInARow = 0
    /\ sigint = "none"
    /\ sigPc = "none"
    /\ refused = {}
    /\ WorkflowNotRunning
    /\ OthersIdle

\* lines 306-309: catch of the counts-only block: close, process.exit(1)
CountsFail ==
    /\ connOpen' = FALSE
    /\ pc' = "exited"
    /\ exitCode' = 1
    /\ log' = log \cup {"countsError"}

\* line 284: await executor.sequelize.authenticate()
CountsAuthenticate ==
    /\ pc = "countsAuthenticate"
    /\ \E ok \in BOOLEAN :
          IF ok
          THEN /\ pc' = "countsQuery"
               /\ UNCHANGED <<connOpen, exitCode, log>>
          ELSE CountsFail
    /\ UNCHANGED <<storeVars, histVars, configVars, runNo, allQueries, fetchCalls,
                   guardVars, poolVars, applied, countVars, failuresFile, summary,
                   issued, lateRows, snapshots, sigVars, wfVars, otherVars>>

\* lines 287-301: the next counts statement is sent and answered
CountsQuery ==
    /\ pc = "countsQuery"
    /\ Len(issued) < Len(CountsQueries)
    /\ LET stmt == CountsQueries[Len(issued) + 1] IN
       /\ issued' = Append(issued, stmt)
       /\ \E ok \in BOOLEAN :
             IF ok
             THEN /\ deleted_at' = StoreEffect(stmt)
                  /\ log' = log \cup {"counts"}
                  /\ UNCHANGED <<pc, connOpen, exitCode>>
             ELSE /\ CountsFail
                  /\ UNCHANGED deleted_at
    /\ UNCHANGED <<delta, toRemove, now, histVars, configVars, runNo, allQueries,
                   fetchCalls, guardVars, poolVars, applied, countVars, failuresFile,
                   summary, lateRows, snapshots, sigVars, wfVars, otherVars>>

\* lines 303-305: close, process.exit(0)
CountsClose ==
    /\ pc = "countsQuery"
    /\ Len(issued) >= Len(CountsQueries)
    /\ connOpen' = FALSE
    /\ log' = log \cup {"closed"}
    /\ pc' = "exited"
    /\ exitCode' = 0
    /\ UNCHANGED <<storeVars, histVars, configVars, runNo, allQueries, fetchCalls,
                   guardVars, poolVars, applied, countVars, failuresFile, summary,
                   issued, lateRows, snapshots, sigVars, wfVars, otherVars>>

CountsNext == CountsAuthenticate \/ CountsQuery \/ CountsClose

CountsSpec == CountsInit /\ [][CountsNext]_vars

\* ---- the staging source changes during a run ---------------------------------------

\* another process gives row i of qlik_invoice_view_delta an executable
\* statement after this run has fetched its list and before it has ended
SourceAdds(i, sql) ==
    /\ pc \in {"safeDelete", "safeDeleteUpdate", "dispatch", "executing"}
    /\ delta[i] \in {SqlNull, SqlEmpty}
    /\ delta' = [delta EXCEPT ![i] = sql]
    /\ lateRows' = lateRows \cup {i}
    /\ snapshots' = snapshots
    /\ UNCHANGED <<toRemove, deleted_at, now, histVars, configVars, runNo, pc, exitCode,
                   connOpen, allQueries, fetchCalls, guardVars, poolVars, applied,
                   countVars, log, failuresFile, summary, issued, sigVars, wfVars, otherVars>>

\* one run of the process while the staging source gains rows
SnapNext ==
    \/ Authenticate
    \/ FetchDeltaQueries
    \/ SafeDeleteSelect
    \/ SafeDeleteUpdate
    \/ NoQueries
    \/ ExecuteAllQueries
    \/ \E k \in DOMAIN opState : StoreExec(k)
    \/ \E k \in DOMAIN opState : Complete(k)
    \/ AfterExecuteAllQueries
    \/ Finally
    \/ CliExit
    \/ \E i \in OpIds : \E sql \in {"ok", "bad"} : SourceAdds(i, sql)

SnapSpec == Init /\ [][SnapNext]_vars

\* ---- the then handler alone, for lists longer than the progress interval -----------

\* lengths of the list around the multiples of the interval
ProgTotals == {1, ProgressEvery - 1, ProgressEvery, ProgressEvery + 1,
               2 * ProgressEvery, MaxTotal}

\* operation k fails when k is a multiple of every (never when every = 0)
FailsEvery(every, k) == every > 0 /\ k % every = 0

\* lines 129-131: executeAllQueries was called with a list of `total` operations
ProgInit ==
    /\ \E total \in ProgTotals : \E every \in 0..3 :
          allQueries = [k \in 1..total |->
                           [invoice_line_id |-> k,
                            mdm_sql |-> IF FailsEvery(every, k) THEN "bad" ELSE "ok"]]
    /\ delta = [k \in OpIds |-> SqlNull]
    /\ toRemove = {}
    /\ deleted_at = [g \in Groups |-> 0]
    /\ now = 1
    /\ limit = 1
    /\ safeDelete = FALSE
    /\ runNo = 1
    /\ pc = "executing"
    /\ exitCode = 0
    /\ connOpen = TRUE
    /\ fetchCalls = 1
    /\ results = {}
    /\ sdPhase = "notrun"
    /\ markedCount = 0
    /\ opState = <<>>
    /\ startCount = <<>>
    /\ applied = {}
    /\ running = 0
    /\ nextIdx = 1
    /\ done = FALSE
    /\ promise = "pending"
    /\ processedCount = 0
    /\ successCount = 0
    /\ failedQueries = <<>>
    /\ log = {}
    /\ failuresFile = <<>>
    /\ summary = <<>>
    /\ issued = <<>>
    /\ lateRows = {}
    /\ snapshots = <<>>
    /\ passesInARow = 0
    /\ sigint = "none"
    /\ sigPc = "none"
    /\ refused = {}
    /\ WorkflowNotRunning
    /\ OthersIdle

\* lines 137-153: the then handler runs for the next result
ThenHandler ==
    /\ processedCount < Len(allQueries)
    /\ LET k == processedCount + 1
           result == executeSingleQuery(allQueries[k],
                                        StatementSucceeds(allQueries[k].mdm_sql))
       IN /\ failedQueries' = CollectFailed(failedQueries, result)
          /\ successCount' = CountSuccess(successCount, result)
          /\ processedCount' = processedCount + 1
          /\ snapshots' = LogProgress(snapshots, processedCount', successCount',
                                      Len(failedQueries'), Len(allQueries))
    /\ UNCHANGED <<storeVars, histVars, configVars, runNo, pc, exitCode, connOpen,
                   allQueries, fetchCalls, guardVars, poolVars, applied, log,
                   failuresFile, summary, issued, lateRows, sigVars, wfVars, otherVars>>

ProgSpec == ProgInit /\ [][ThenHandler]_vars

\* ---- operations that never complete -------------------------------------------------

\* line 103: the store never answers this statement, and nothing in the code
\* times the query out
StatementHangs(sql) == sql = "hang"

\* the operations of the fetched list whose statement is never answered
HungOps == {k \in 1..Len(allQueries) : StatementHangs(allQueries[k].mdm_sql)}

\* a full execution without the safe-delete pass on a staging source that may
\* hold statements the store never answers
HangInit ==
    /\ delta \in [OpIds -> {SqlNull, "ok", "bad", "hang"}]
    /\ toRemove = {}
    /\ deleted_at = [g \in Groups |-> 0]
    /\ now = 1
    /\ limit \in 1..MaxLimit
    /\ safeDelete = FALSE
    /\ runNo = 1
    /\ pc = "authenticate"
    /\ exitCode = 0
    /\ connOpen = TRUE
    /\ allQueries = <<>>
    /\ fetchCalls = 0
    /\ results = {}
    /\ sdPhase = "notrun"
    /\ markedCount = 0
    /\ opState = <<>>
    /\ startCount = <<>>
    /\ applied = {}
    /\ running = 0
    /\ nextIdx = 1
    /\ done = FALSE
    /\ promise = "none"
    /\ processedCount = 0
    /\ successCount = 0
    /\ failedQueries = <<>>
    /\ log = {}
    /\ failuresFile = <<>>
    /\ summary = <<>>
    /\ issued = <<>>
    /\ lateRows = {}
    /\ snapshots = <<>>
    /\ passesInARow = 0
    /\ sigint = "none"
    /\ sigPc = "none"
    /\ refused = {}
    /\ WorkflowNotRunning
    /\ OthersIdle

\* line 103: the store answers a started operation whose statement does not hang
HangStoreExec(k) ==
    /\ k \notin HungOps
    /\ StoreExec(k)

HangNext ==
    \/ Authenticate
    \/ FetchDeltaQueries
    \/ NoQueries
    \/ ExecuteAllQueries
    \/ \E k \in DOMAIN opState : HangStoreExec(k)
    \/ \E k \in DOMAIN opState : Complete(k)
    \/ AfterExecuteAllQueries
    \/ Finally
    \/ CliExit

\* the store answers every statement that does not hang, and the event loop
\* runs every handler that is ready
HangFairSpec == HangInit /\ [][HangNext]_vars /\ WF_vars(HangNext)

\* ---- the bounded executor ------------------------------------------------------

\* operations started (executeSingleQuery called) and not yet completed
InFlight == {k \in DOMAIN opState : opState[k] \in {"sent", "answered"}}

Queued == {k \in DOMAIN opState : opState[k] = "queued"}

FailingOps == {k \in 1..Len(allQueries) : ~QuerySucceeds(k)}

FailedIds == {failedQueries[j].invoice_line_id : j \in 1..Len(failedQueries)}

\* C1: during executeAllQueries, for every concurrency limit, the number of
\* operations started and not yet completed never exceeds the limit.
C1_InFlightAtMostLimit == Cardinality(InFlight) <= limit

C1_Witness ==
    /\ Cardinality(InFlight) = limit
    /\ Queued # {}
    /\ \E k \in DOMAIN opState : opState[k] = "done"

\* C2: no operation is ever started a second time, and when executeAllQueries
\* has resolved every operation of the input list was started exactly once,
\* whatever subset of the operations failed.
C2_StartedExactlyOnce ==
    /\ \A k \in DOMAIN startCount : startCount[k] <= 1
    /\ promise = "resolved" =>
          /\ DOMAIN startCount = 1..Len(allQueries)
          /\ \A k \in 1..Len(allQueries) : startCount[k] = 1

C2_Witness ==
    /\ promise = "resolved"
    /\ Len(allQueries) > limit
    /\ FailingOps # {}
    /\ FailingOps # 1..Len(allQueries)

\* C3: when executeAllQueries has resolved for n operations, processedCount = n,
\* successCount + Len(failedQueries) = n, and failedQueries holds exactly one
\* entry for each failed operation.
C3_OutcomeCount ==
    promise = "resolved" =>
        /\ processedCount = Len(allQueries)
        /\ successCount + Len(failedQueries) = Len(allQueries)
        /\ FailedIds = {allQueries[k].invoice_line_id : k \in FailingOps}
        /\ Cardinality(FailedIds) = Len(failedQueries)

C3_Witness ==
    /\ promise = "resolved"
    /\ Len(failedQueries) >= 2
    /\ successCount >= 1

\* C4: a failing operation never stops the others: the queue is not shut while
\* operations are waiting, the call never rejects, and when it has resolved
\* every non-failing operation has completed, was applied by the store and is
\* counted as a success.
C4_FailureIsolated ==
    /\ promise # "rejected"
    /\ (promise = "pending" /\ Queued # {}) => ~done
    /\ promise = "resolved" =>
          /\ \A k \in 1..Len(allQueries) \ FailingOps :
                /\ opState[k] = "done"
                /\ allQueries[k].invoice_line_id \in applied
          /\ successCount = Len(allQueries) - Cardinality(FailingOps)

C4_Witness ==
    /\ promise = "resolved"
    /\ \E j, k \in 1..Len(allQueries) :
          /\ j < k
          /\ j \in FailingOps
          /\ k \notin FailingOps
          /\ allQueries[k].invoice_line_id \in applied

\* C5: executeAllQueries has resolved only when every input operation has
\* completed: never while an operation is still queued or in flight.
C5_ResolvesAfterAll ==
    promise = "resolved" =>
        /\ DOMAIN opState = 1..Len(allQueries)
        /\ \A k \in 1..Len(allQueries) : opState[k] = "done"

C5_Witness ==
    /\ promise = "resolved"
    /\ pc = "executing"
    /\ Len(allQueries) > limit

\* ---- the safe-delete pass and the run ------------------------------------------

SomeOpStarted == \E k \in DOMAIN startCount : startCount[k] > 0

\* C6: with safe delete enabled, an operation is started, is in flight or has
\* been applied only after safeDeleteChangedInvoiceRows has run to completion.
C6_SafeDeleteBeforeOps ==
    (safeDelete /\ (SomeOpStarted \/ InFlight # {} \/ applied # {})) => sdPhase = "done"

C6_Witness ==
    /\ safeDelete
    /\ markedCount > 0
    /\ sdPhase = "done"
    /\ InFlight # {}

\* C7: when the safe-delete pass has failed, the run has exited with a non-zero
\* status and no operation was started or applied in that run.
C7_SafeDeleteFailureAborts ==
    sdPhase = "failed" =>
        /\ pc = "exited"
        /\ exitCode # 0
        /\ applied = {}
        /\ ~SomeOpStarted
        /\ promise = "none"

C7_Witness ==
    /\ sdPhase = "failed"
    /\ results # {}
    /\ Len(allQueries) > 0
    /\ pc = "exited"

\* C8: fetchDeltaQueries is called at most once in a run, and when it has failed
\* the run has exited with a non-zero status without running the safe-delete
\* pass and without starting or applying any operation.
C8_FetchFailureFatal ==
    /\ fetchCalls <= 1
    /\ "fetchError" \in log =>
          /\ pc = "exited"
          /\ exitCode # 0
          /\ sdPhase = "notrun"
          /\ applied = {}
          /\ ~SomeOpStarted
          /\ promise = "none"

C8_Witness ==
    /\ "fetchError" \in log
    /\ pc = "exited"
    /\ safeDelete
    /\ toRemove # {}
    /\ fetchDeltaQueries(delta) # <<>>

\* C9: a safe-delete pass that follows a completed pass, with the same removal
\* markers and no statement applied in between, marks no row and leaves
\* mdm_invoice_qlik, every deleted_at included, as the first pass left it.
C9_SecondPassIdempotent ==
    [][(pc = "safeDeleteUpdate" /\ passesInARow >= 1 /\ sdPhase' = "done")
          => (deleted_at' = deleted_at /\ markedCount' = 0)]_vars

\* the run ended after a fetch that returned no operation while removal markers
\* exist, and no statement of the run failed
EndedWithEmptyFetch ==
    /\ pc = "exited"
    /\ toRemove # {}
    /\ "found" \in log
    /\ Len(allQueries) = 0
    /\ sdPhase # "failed"

RetiredAndQuiet ==
    /\ \A g \in toRemove : deleted_at[g] = now
    /\ applied = {}
    /\ ~SomeOpStarted
    /\ "noQueries" \in log
    /\ exitCode = 0

\* C10 as stated: whenever removal markers exist and the fetch returns no
\* operation, a full execution retires every marked group, applies nothing,
\* reports that there is nothing to execute and exits 0.
C10_EmptyFetchStillRetires == EndedWithEmptyFetch => RetiredAndQuiet

\* C10 amended: the same for a full execution with safe delete enabled.
C10_EmptyFetchStillRetiresWhenEnabled == (EndedWithEmptyFetch /\ safeDelete) => RetiredAndQuiet

C10_Witness ==
    /\ EndedWithEmptyFetch
    /\ safeDelete
    /\ toRemove = Groups
    /\ markedCount = MaxGroups
    /\ RetiredAndQuiet

\* ---- the monthly workflow script (src/unnamed/part_001, lines 165-241) --------
\* MONTHS is indexed 1..MaxMonths in declared order; a command's exit status is
\* all the script sees of a stage.

\* line 187
max_attempts == 2

\* the exit statuses a stage command can end with
CmdStatuses == {0, 1}

AttemptsLeftOneMore(a) == a <= max_attempts + 1

\* line 188: while [ $attempt -le $max_attempts ]
AttemptsLeft(a) == a <= max_attempts

\* lines 191, 221, 230: bash takes the `then` branch on exit status 0
CommandSucceeded(status) == status = 0

InvoiceNeverMissing(m) == FALSE

\* line 213: [ ! -f "$INVOICE" ]
InvoiceMissing(m) == ~invoiceExists[m]

\* what an earlier run of the script left in a month's failure log
StaleSection == [attempt |-> 0, output |-> "stale"]

\* line 214: the line tee -a writes for a missing invoice
MissingLine == [attempt |-> 0, output |-> "Invoice file missing"]

\* line 190-191: what attempt a of stage st writes to tmpout
Output(st, a) == <<st, a>>

\* lines 197-199: the section of one failed attempt
Section(a, out) == [attempt |-> a, output |-> out]

Overwrite(file, entry) == <<entry>>

\* lines 197-199, 214: >> and tee -a append to the file
AppendTo(file, entry) == Append(file, entry)

NextMonthSkipsOne(m) == m + 2

\* line 207: for MM in "${MONTHS[@]}"
NextMonth(m) == m + 1

AfterReturnExits(st, ok) ==
    IF ~ok THEN "exit" ELSE IF st = 1 THEN "part2" ELSE "completed"

AfterReturnFallsThrough(st, ok) ==
    IF st = 1 THEN "part2" ELSE IF ok THEN "completed" ELSE "continue"

\* lines 221-237: what the main loop does when run_cmd_with_retry returns
AfterReturn(st, ok) ==
    IF ~ok THEN "continue" ELSE IF st = 1 THEN "part2" ELSE "completed"

\* the engine is not running while the script itself is followed
EngineNotRunning ==
    /\ delta = [k \in OpIds |-> SqlNull]
    /\ toRemove = {}
    /\ deleted_at = [g \in Groups |-> 0]
    /\ now = 1
    /\ limit = 1
    /\ safeDelete = TRUE
    /\ runNo = 1
    /\ pc = "exited"
    /\ exitCode = 0
    /\ connOpen = FALSE
    /\ allQueries = <<>>
    /\ fetchCalls = 0
    /\ results = {}
    /\ sdPhase = "notrun"
    /\ markedCount = 0
    /\ opState = <<>>
    /\ startCount = <<>>
    /\ applied = {}
    /\ running = 0
    /\ nextIdx = 1
    /\ done = FALSE
    /\ promise = "none"
    /\ processedCount = 0
    /\ successCount = 0
    /\ failedQueries = <<>>
    /\ log = {}
    /\ failuresFile = <<>>
    /\ summary = <<>>
    /\ issued = <<>>
    /\ lateRows = {}
    /\ snapshots = <<>>
    /\ passesInARow = 0
    /\ sigint = "none"
    /\ sigPc = "none"
    /\ refused = {}

\* lines 165-181: the script starts; any subset of the invoice files exists, and
\* the failure logs are empty or hold what an earlier run appended
WfInit ==
    /\ EngineNotRunning
    /\ OthersIdle
    /\ invoiceExists \in [Months -> BOOLEAN]
    /\ staleLog \in BOOLEAN
    /\ mm = 1
    /\ wfPc = "loop"
    /\ stage = 1
    /\ attempt = 1
    /\ failfile = [m \in Months |-> IF staleLog THEN <<StaleSection>> ELSE <<>>]
    /\ runningCmds = {}
    /\ outcomes = [m \in Months |-> [st \in Stages |-> <<>>]]
    /\ unitState = [m \in Months |-> "Pending"]
    /\ visited = <<>>

\* lines 207-217: the loop takes month mm and its invoice file is missing
SkipMissing ==
    /\ wfPc = "loop"
    /\ mm \in Months
    /\ InvoiceMissing(mm)
    /\ visited' = Append(visited, mm)
    /\ failfile' = [failfile EXCEPT ![mm] = AppendTo(@, MissingLine)]
    /\ unitState' = [unitState EXCEPT ![mm] = "FailedAndLogged"]
    /\ mm' = NextMonth(mm)
    /\ UNCHANGED <<invoiceExists, staleLog, wfPc, stage, attempt, runningCmds, outcomes>>
    /\ UNCHANGED <<engineVars, otherVars>>

\* lines 207-221: the loop takes month mm, the invoice exists, Part 1 is handed
\* to run_cmd_with_retry (lines 184-187)
BeginMonth ==
    /\ wfPc = "loop"
    /\ mm \in Months
    /\ ~InvoiceMissing(mm)
    /\ visited' = Append(visited, mm)
    /\ unitState' = [unitState EXCEPT ![mm] = "Running"]
    /\ stage' = 1
    /\ attempt' = 1
    /\ wfPc' = "retry"
    /\ UNCHANGED <<invoiceExists, staleLog, mm, failfile, runningCmds, outcomes>>
    /\ UNCHANGED <<engineVars, otherVars>>

\* lines 188-191: the while test passes and the command is started
StartAttempt ==
    /\ wfPc = "retry"
    /\ AttemptsLeft(attempt)
    /\ runningCmds' = runningCmds \cup {<<mm, stage>>}
    /\ wfPc' = "running"
    /\ UNCHANGED <<invoiceExists, staleLog, mm, stage, attempt, failfile, outcomes,
                   unitState, visited>>
    /\ UNCHANGED <<engineVars, otherVars>>

\* lines 221-237: run_cmd_with_retry has returned to the main loop
Return(ok) ==
    LET todo == AfterReturn(stage, ok) IN
    IF todo = "part2"
    THEN /\ stage' = 2
         /\ attempt' = 1
         /\ wfPc' = "retry"
         /\ UNCHANGED <<mm, unitState>>
    ELSE IF todo \in {"completed", "continue"}
    THEN /\ unitState' = [unitState EXCEPT
                             ![mm] = IF todo = "completed" THEN "Succeeded"
                                     ELSE "FailedAndLogged"]
         /\ mm' = NextMonth(mm)
         /\ wfPc' = "loop"
         /\ UNCHANGED <<stage, attempt>>
    ELSE /\ wfPc' = "aborted"
         /\ UNCHANGED <<mm, unitState, stage, attempt>>

\* a run_cmd_with_retry that removes the failure log when the command succeeds
EndAttemptClearsLog ==
    /\ wfPc = "running"
    /\ \E status \in CmdStatuses :
          /\ outcomes' = [outcomes EXCEPT ![mm][stage] = Append(@, status)]
          /\ runningCmds' = runningCmds \ {<<mm, stage>>}
          /\ IF CommandSucceeded(status)
             THEN /\ Return(TRUE)
                  /\ failfile' = [failfile EXCEPT ![mm] = <<>>]
             ELSE /\ failfile' = [failfile EXCEPT
                                     ![mm] = AppendTo(@, Section(attempt, Output(stage, attempt)))]
                  /\ attempt' = attempt + 1
                  /\ wfPc' = "retry"
                  /\ UNCHANGED <<mm, stage, unitState>>
    /\ UNCHANGED <<invoiceExists, staleLog, visited>>
    /\ UNCHANGED <<engineVars, otherVars>>

\* lines 191-202: the command ends; exit 0 returns 0, any other status appends
\* the attempt's section to the failure log and counts the attempt
\* lines 191-202: the command ends; exit 0 returns 0, any other status appends
\* the attempt's section to the failure log and counts the attempt
CommandEnds(status) ==
    /\ wfPc = "running"
    /\ outcomes' = [outcomes EXCEPT ![mm][stage] = Append(@, status)]
    /\ runningCmds' = runningCmds \ {<<mm, stage>>}
    /\ IF CommandSucceeded(status)
       THEN /\ Return(TRUE)
            /\ UNCHANGED failfile
       ELSE /\ failfile' = [failfile EXCEPT
                               ![mm] = AppendTo(@, Section(attempt, Output(stage, attempt)))]
            /\ attempt' = attempt + 1
            /\ wfPc' = "retry"
            /\ UNCHANGED <<mm, stage, unitState>>
    /\ UNCHANGED <<invoiceExists, staleLog, visited>>

\* lines 190-202: the command of the current stage ends with some exit status
EndAttempt ==
    /\ \E status \in CmdStatuses : CommandEnds(status)
    /\ UNCHANGED <<engineVars, otherVars>>

\* lines 188, 204: the while test fails, run_cmd_with_retry returns 1
RetryExhausted ==
    /\ wfPc = "retry"
    /\ ~AttemptsLeft(attempt)
    /\ Return(FALSE)
    /\ UNCHANGED <<invoiceExists, staleLog, failfile, runningCmds, outcomes, visited>>
    /\ UNCHANGED <<engineVars, otherVars>>

\* line 240: the list is exhausted, "All months processed"
Finish ==
    /\ wfPc = "loop"
    /\ mm \notin Months
    /\ wfPc' = "finished"
    /\ UNCHANGED <<invoiceExists, staleLog, mm, stage, attempt, failfile, runningCmds,
                   outcomes, unitState, visited>>
    /\ UNCHANGED <<engineVars, otherVars>>

WfNext ==
    \/ SkipMissing
    \/ BeginMonth
    \/ StartAttempt
    \/ EndAttempt
    \/ RetryExhausted
    \/ Finish

WfSpec == WfInit /\ [][WfNext]_vars

\* every command of a stage ends, and the script takes its next step
WfFairSpec == WfInit /\ [][WfNext]_vars /\ WF_vars(WfNext)

\* ---- exit paths and the interrupt ------------------------------------------------

\* C17: on every exit path of execute() that follows the fetch (success, early
\* return, failure in fetch, safe delete or the executor) the connection has
\* been closed with sequelize.close() when the process exits.
C17_ClosedOnEveryExit == (pc = "exited" /\ fetchCalls >= 1) => ~connOpen

\* C18: once the SIGINT handler has run, no queued operation is started before
\* the process exits.
C18_NoAdmissionAfterSigint ==
    [][(sigint = "closing" /\ pc # "exited") => startCount' = startCount]_vars

\* execute() ran to its end: every fetched operation was attempted and the
\* summary was written, or nothing was fetched
RunReachedEnd ==
    \/ "noQueries" \in log
    \/ /\ "summary" \in log
       /\ \A k \in 1..Len(allQueries) : opState[k] = "done"

\* C19: the process exits 0 exactly when the run reached its end, and non-zero
\* whenever it stopped before, a run stopped by an interrupt included.
C19_ExitStatusDistinguishes == pc = "exited" => (exitCode = 0 <=> RunReachedEnd)

\* ---- the monthly workflow: claims -----------------------------------------------

\* the attempts of stage st of month m made so far, the running one included
Attempts(m, st) ==
    Len(outcomes[m][st]) + (IF <<m, st>> \in runningCmds THEN 1 ELSE 0)

AllFailed(m, st) ==
    \A i \in 1..Len(outcomes[m][st]) : ~CommandSucceeded(outcomes[m][st][i])

\* stage st of month m failed on every attempt of its budget
Exhausted(m, st) == Len(outcomes[m][st]) >= max_attempts /\ AllFailed(m, st)

Terminal(m) == unitState[m] \in {"Succeeded", "FailedAndLogged"}

\* run_cmd_with_retry has returned for stage st of month m
StageOver(m, st) ==
    \/ Terminal(m)
    \/ unitState[m] = "Running" /\ st < stage

AllMonths == [i \in 1..MaxMonths |-> i]

\* C11: whatever stages fail, the run reaches its end with every month of the
\* declared list visited and every month either succeeded or failed and logged.
C11_FailedUnitNeverStopsRun ==
    <>(/\ wfPc = "finished"
       /\ visited = AllMonths
       /\ \A m \in Months : Terminal(m))

\* a finished run in which a month failed on every attempt of a stage and a later
\* month was still processed to success
C11_Witness ==
    /\ wfPc = "finished"
    /\ \E m \in Months : \E n \in Months :
          /\ m < n
          /\ Exhausted(m, 1)
          /\ unitState[n] = "Succeeded"

\* C12: a stage is attempted at most max_attempts (2) times, never again after
\* a successful attempt (so once when the first attempt succeeds), and exactly
\* max_attempts times when every attempt failed.
C12_AttemptsWithinBudget ==
    \A m \in Months : \A st \in Stages :
        /\ Attempts(m, st) <= max_attempts
        /\ \A i \in 1..Len(outcomes[m][st]) :
              CommandSucceeded(outcomes[m][st][i]) => Attempts(m, st) = i
        /\ (StageOver(m, st) /\ Attempts(m, st) > 0 /\ AllFailed(m, st))
              => Attempts(m, st) = max_attempts

\* one stage failed twice, one succeeded at once, one succeeded on the retry
C12_Witness ==
    \E m \in Months : \E n \in Months :
        /\ outcomes[m][1] = <<0>>
        /\ outcomes[m][2] = <<1, 0>>
        /\ outcomes[n][1] = <<1, 1>>
        /\ Terminal(m) /\ Terminal(n)

\* C13: Part 2 is attempted only after an attempt of Part 1 has succeeded and
\* Part 1 is over; a month whose Part 1 failed on every attempt never has an
\* attempt of Part 2.
C13_StagesInOrder ==
    \A m \in Months :
        /\ Attempts(m, 2) > 0 =>
              /\ Len(outcomes[m][1]) > 0
              /\ CommandSucceeded(outcomes[m][1][Len(outcomes[m][1])])
              /\ <<m, 1>> \notin runningCmds
        /\ Exhausted(m, 1) => Attempts(m, 2) = 0

\* Part 1 of a month is exhausted and the loop has moved on, and Part 2 of
\* another month is running after its Part 1 succeeded
C13_Witness ==
    \E m \in Months : \E n \in Months :
        /\ Exhausted(m, 1) /\ unitState[m] = "FailedAndLogged"
        /\ <<n, 2>> \in runningCmds

InitialLog == IF staleLog THEN <<StaleSection>> ELSE <<>>

InVisited(m) == \E i \in 1..Len(visited) : visited[i] = m

\* C14: a visited month whose invoice file is missing has the missing-file line
\* appended to its failure log, no attempt of either stage, is failed and
\* logged, and the loop has moved to the next month without stopping.
C14_MissingInputSkipped ==
    \A m \in Months :
        (InVisited(m) /\ ~invoiceExists[m]) =>
            /\ failfile[m] = Append(InitialLog, MissingLine)
            /\ Attempts(m, 1) = 0
            /\ Attempts(m, 2) = 0
            /\ unitState[m] = "FailedAndLogged"
            /\ mm = m + 1 \/ InVisited(m + 1)
            /\ wfPc # "aborted"

\* a month with a missing invoice was skipped and the next month is being run
C14_Witness ==
    \E m \in Months :
        /\ ~invoiceExists[m]
        /\ InVisited(m)
        /\ m + 1 \in Months
        /\ Attempts(m + 1, 1) > 0

\* C15: from the moment a stage has failed on every attempt of its budget, the
\* failure log of the month ends with one section per attempt of that stage, in
\* attempt order, each holding that attempt's output; so it does when the next
\* month starts.
C15_AttemptOutputsLogged ==
    \A m \in Months : \A st \in Stages :
        Exhausted(m, st) =>
            LET n == Len(failfile[m]) IN
            /\ n >= max_attempts
            /\ \A a \in 1..max_attempts :
                  failfile[m][n - max_attempts + a] = Section(a, Output(st, a))

\* Part 2 of a month is exhausted after a failed first attempt of Part 1, the
\* log held older content, and the next month has started
C15_Witness ==
    \E m \in Months :
        /\ staleLog
        /\ outcomes[m][1] = <<1, 0>>
        /\ Exhausted(m, 2)
        /\ InVisited(m + 1)

\* C16: months are started in declared order, at most one stage command runs
\* at a time (that of the current month and stage), and every month started
\* before the latest one is Succeeded or FailedAndLogged.
C16_StrictlySequential ==
    /\ Cardinality(runningCmds) <= 1
    /\ runningCmds # {} => runningCmds = {<<mm, stage>>}
    /\ Len(visited) <= MaxMonths
    /\ visited = [i \in 1..Len(visited) |-> i]
    /\ \A i \in 1..(Len(visited) - 1) : Terminal(visited[i])

\* the last month's Part 2 is running after all earlier months ended
C16_Witness ==
    /\ Len(visited) = MaxMonths
    /\ runningCmds = {<<MaxMonths, 2>>}
    /\ \E m \in Months : unitState[m] = "Succeeded"
    /\ \E m \in Months : unitState[m] = "FailedAndLogged"

\* ---- operation failures and the exit status ---------------------------------------

\* C20: an engine run that ended with failed operations and whose executor
\* resolved (fetch, safe delete and coordination without error) exits with
\* status 0, which the workflow's test of Part 2 takes as success.
C20_OperationFailuresNotFatal ==
    (pc = "exited" /\ Len(failedQueries) > 0 /\ promise = "resolved") =>
        /\ exitCode = DoneExitCode
        /\ CommandSucceeded(exitCode)

\* a run in which every one of several operations failed has exited with 0
C20_Witness ==
    /\ pc = "exited"
    /\ exitCode = 0
    /\ Len(allQueries) >= 2
    /\ Len(failedQueries) = Len(allQueries)
    /\ "summary" \in log

\* ---- the failure records and the summary -------------------------------------------

\* the record the failures file holds for the failed operation at index k
FailureRecord(k) ==
    [invoice_line_id |-> allQueries[k].invoice_line_id, success |-> FALSE,
     error |-> "error.message", mdm_sql |-> allQueries[k].mdm_sql]

\* C21: when a run has written its summary, the failures file was written in
\* that run only if an operation failed, and then it holds exactly one record
\* for each failed operation of the run, with the operation's id, the error
\* message and the statement that was run.
C21_FailuresFileExact ==
    "summary" \in log =>
        IF Len(failedQueries) > 0
        THEN /\ "failuresSaved" \in log
             /\ Len(failuresFile) = Cardinality(FailingOps)
             /\ \A k \in FailingOps : \E j \in 1..Len(failuresFile) :
                   failuresFile[j] = FailureRecord(k)
        ELSE /\ "failuresSaved" \notin log
             /\ FailingOps = {}

\* a completed run with two failures and a success has written both records
C21_Witness ==
    /\ "summary" \in log
    /\ Len(failedQueries) = 2
    /\ successCount = 1
    /\ Len(failuresFile) = 2
    /\ pc = "exited"

\* the run ended without being aborted
EndedNotAborted == pc = "exited" /\ exitCode = DoneExitCode

\* the summary was printed with the true counts of the run
SummaryWithTrueCounts ==
    summary = <<processedCount, successCount, Len(failedQueries)>>

\* C22 as stated: every run that ended without being aborted has printed the
\* summary with its processed, successful and failed counts, also when the
\* fetch returned no operation.
C22_SummaryAlways == EndedNotAborted => SummaryWithTrueCounts

\* C22 amended: a run that ended without being aborted and fetched at least one
\* operation has printed the summary with the true counts, whatever number of
\* operations failed; a run that fetched no operation has reported that there
\* is nothing to execute and printed no summary.
C22_SummaryWhenOperations ==
    EndedNotAborted =>
        IF Len(allQueries) > 0
        THEN /\ SummaryWithTrueCounts
             /\ summary[1] = Len(allQueries)
        ELSE /\ summary = <<>>
             /\ "noQueries" \in log

\* a run with one failure and one success has ended with its summary
C22_Witness ==
    /\ EndedNotAborted
    /\ summary = <<2, 1, 1>>

\* C23: once the catch handler of an operation has reported an unexpected
\* error, the promise of executeAllQueries is rejected, and the run can only
\* end with a non-zero status, without the summary and without the failures
\* file being written.
C23_CoordinationErrorAborts ==
    "unexpectedError" \in log =>
        /\ promise = "rejected"
        /\ pc \in {"executing", "exited"}
        /\ pc = "exited" => exitCode # 0
        /\ summary = <<>>
        /\ "summary" \notin log
        /\ "failuresSaved" \notin log

\* a run aborted by an unexpected error after an operation had already failed
C23_Witness ==
    /\ "unexpectedError" \in log
    /\ pc = "exited"
    /\ exitCode = CatchExitCode
    /\ Len(failedQueries) > 0
    /\ Queued # {}

\* ---- counts-only mode: claim ---------------------------------------------------------

\* C24: in counts-only mode every statement sent to the store is a SELECT, the
\* safe-delete pass is never run, no operation is fetched, started or applied,
\* mdm_invoice_qlik is as it was at the start, and the process has closed the
\* connection when it exits.
C24_CountsOnlyAppliesNothing ==
    /\ \A i \in 1..Len(issued) : issued[i].verb = "SELECT"
    /\ sdPhase = "notrun"
    /\ markedCount = 0
    /\ fetchCalls = 0
    /\ ~SomeOpStarted
    /\ promise = "none"
    /\ applied = {}
    /\ deleted_at = [g \in Groups |-> 0]
    /\ pc = "exited" => ~connOpen

\* counts-only mode has ended normally on a store with removal markers and
\* executable operations
C24_Witness ==
    /\ pc = "exited"
    /\ exitCode = 0
    /\ Len(issued) = 2
    /\ toRemove # {}
    /\ fetchDeltaQueries(delta) # <<>>

\* ---- the fetched list is a snapshot --------------------------------------------------

StartedIds == {allQueries[k].invoice_line_id : k \in {j \in DOMAIN startCount : startCount[j] > 0}}

\* C25: the list is fetched at most once in a run, and a row of the staging
\* source that became executable after the fetch is neither started nor
\* applied in that run, whatever the guard and the executor were doing when it
\* was added.
C25_SnapshotFetchedOnce ==
    /\ fetchCalls <= 1
    /\ StartedIds \cap lateRows = {}
    /\ applied \cap lateRows = {}
    /\ \A k \in DOMAIN opState : allQueries[k].invoice_line_id \notin lateRows

\* the executor has resolved for two operations while a row that became
\* executable during the run was left alone
C25_Witness ==
    /\ lateRows # {}
    /\ promise = "resolved"
    /\ Len(allQueries) = 2
    /\ Cardinality(StartedIds) = 2

\* ---- progress lines ------------------------------------------------------------------

\* the processed counts at which a progress line is due so far
DuePoints ==
    {p \in 1..processedCount : p % ProgressEvery = 0 \/ p = Len(allQueries)}

\* C26: the progress lines logged so far are exactly those of the completions
\* at which the processed count was a multiple of 100 or the total, in order,
\* and each line has processed = success + failed and processed <= total.
C26_ProgressSnapshots ==
    /\ {snapshots[i][1] : i \in 1..Len(snapshots)} = DuePoints
    /\ Len(snapshots) = Cardinality(DuePoints)
    /\ \A i \in 1..Len(snapshots) :
          /\ snapshots[i][1] = snapshots[i][2] + snapshots[i][3]
          /\ snapshots[i][1] <= Len(allQueries)
          /\ i > 1 => snapshots[i - 1][1] < snapshots[i][1]

\* a list of 201 operations with failures has logged its lines at 100, 200
\* and 201
C26_Witness ==
    /\ Len(allQueries) = MaxTotal
    /\ Len(snapshots) = 3
    /\ snapshots[1][1] = ProgressEvery
    /\ snapshots[3][1] = MaxTotal
    /\ snapshots[3][3] > 0
    /\ snapshots[3][2] > 0

\* ---- work conservation ---------------------------------------------------------------

\* C27: while the executor runs and operations are still queued, exactly
\* `limit` operations are in flight; fewer are in flight only when no operation
\* is queued any more. Every completion is one step with the admission of the
\* next queued operation, so this holds right after each completion.
C27_WorkConserving ==
    pc = "executing" =>
        /\ Queued # {} => Cardinality(InFlight) = limit
        /\ Cardinality(InFlight) < limit => Queued = {}

\* the first operation has completed, its completion has admitted the second
\* one, the pool is full again and the third operation is still waiting
C27_Witness ==
    /\ pc = "executing"
    /\ opState = <<"done", "sent", "queued">>
    /\ Cardinality(InFlight) = limit
    /\ processedCount = 1

\* ---- termination of the executor ---------------------------------------------------

\* C28: when no operation of the list hangs, a pending executeAllQueries
\* eventually resolves. An operation that hangs stays in flight for ever and the
\* call never resolves; when exactly one operation hangs and the limit is above
\* 1, every other operation is eventually started and completed.
C28_ResolvesUnlessHung ==
    /\ (promise = "pending" /\ HungOps = {}) ~> (promise = "resolved")
    /\ [](HungOps # {} => promise # "resolved")
    /\ [][\A k \in HungOps :
             (k \in DOMAIN opState /\ opState[k] = "sent") => opState'[k] = "sent"]_vars
    /\ (promise = "pending" /\ Cardinality(HungOps) = 1 /\ limit > 1)
          ~> (/\ DOMAIN opState = 1..Len(allQueries)
              /\ \A k \in DOMAIN opState :
                    IF k \in HungOps THEN opState[k] = "sent" ELSE opState[k] = "done")

\* the first of three operations hangs, the limit is 2, the two others have
\* completed and the call is still pending
C28_Witness ==
    /\ Len(allQueries) = 3
    /\ HungOps = {1}
    /\ limit = 2
    /\ opState = <<"sent", "done", "done">>
    /\ promise = "pending"
    /\ processedCount = 2

\* ---- the safe-delete pass on an empty removal set ----------------------------------

\* C29: when the pass has completed on an empty removal set, it has sent no
\* UPDATE, marked no row, left mdm_invoice_qlik as it was, reported no error,
\* and the run has gone on: with operations fetched the executor is called.
C29_EmptyRemovalSetNoOp ==
    (sdPhase = "done" /\ results = {}) =>
        /\ \A i \in 1..Len(issued) : issued[i] # RetireUpdate
        /\ "noRowsToDelete" \in log
        /\ "marked" \notin log
        /\ markedCount = 0
        /\ deleted_at = [g \in Groups |-> 0]
        /\ "safeDeleteError" \notin log
        /\ pc \in {"dispatch", "executing", "finally", "returned", "exited"}
        /\ (pc # "dispatch" /\ Len(allQueries) > 0) => promise # "none"
        /\ pc = "exited" => exitCode = DoneExitCode

\* the pass found nothing to retire and the executor is running
C29_Witness ==
    /\ sdPhase = "done"
    /\ results = {}
    /\ safeDelete
    /\ issued = <<FetchStatement, RemovalSelect>>
    /\ pc = "executing"
    /\ InFlight # {}

\* ---- the fetched list ----------------------------------------------------------------

\* the rows of the staging source that hold a statement
Executable == {i \in OpIds : delta[i] # SqlNull /\ delta[i] # SqlEmpty}

\* C30: once the fetch has succeeded, the list is in strictly ascending order
\* of invoice_line_id, no element has a null or empty mdm_sql, each element
\* carries the statement of its row, and every row of the staging source with
\* a non-empty mdm_sql is in the list.
C30_FetchOrderedAndFiltered ==
    "found" \in log =>
        /\ \A j \in 1..Len(allQueries) : \A k \in 1..Len(allQueries) :
              j < k => allQueries[j].invoice_line_id < allQueries[k].invoice_line_id
        /\ \A k \in 1..Len(allQueries) :
              /\ allQueries[k].mdm_sql # SqlNull
              /\ allQueries[k].mdm_sql # SqlEmpty
              /\ allQueries[k].mdm_sql = delta[allQueries[k].invoice_line_id]
        /\ {allQueries[k].invoice_line_id : k \in 1..Len(allQueries)} = Executable

\* rows 1 and 3 hold statements, row 2 holds an empty one: the list is 1, 3
C30_Witness ==
    /\ "found" \in log
    /\ delta[2] = SqlEmpty
    /\ Len(allQueries) = 2
    /\ allQueries[1].invoice_line_id = 1
    /\ allQueries[2].invoice_line_id = 3

\* ---- the command line and the constructor --------------------------------------------

MaxArgLen == 2     \* longest command line argument explored

\* characters of a command line argument: digits, a sign, a blank, a letter
ArgChars == {"0", "1", "-", " ", "a"}
ArgDigits == {"0", "1"}
ArgTexts == UNION {[1..n -> ArgChars] : n \in 0..MaxArgLen}

\* process.argv[3]: not given, or given with some text (the empty text included)
ArgAbsent == [present |-> FALSE, text |-> <<>>]
Argv3Values == {ArgAbsent} \cup {[present |-> TRUE, text |-> t] : t \in ArgTexts}

\* values of options.safeDelete a caller of the constructor may pass
OptionValues == {"undefined", "true", "false", "0", "'false'", "null"}
TypeofBoolean(opt) == opt \in {"true", "false"}

\* parseInt: leading white space is skipped
RECURSIVE SkipWhiteSpace(_)
SkipWhiteSpace(t) ==
    IF t # <<>> /\ Head(t) = " " THEN SkipWhiteSpace(Tail(t)) ELSE t

\* parseInt: the longest prefix of decimal digits
RECURSIVE DigitPrefix(_)
DigitPrefix(t) ==
    IF t # <<>> /\ Head(t) \in ArgDigits THEN <<Head(t)>> \o DigitPrefix(Tail(t)) ELSE <<>>

DigitValue(c) == IF c = "1" THEN 1 ELSE 0

RECURSIVE DecimalValue(_)
DecimalValue(ds) ==
    IF ds = <<>> THEN 0
    ELSE 10 * DecimalValue(SubSeq(ds, 1, Len(ds) - 1)) + DigitValue(ds[Len(ds)])

\* parseInt(text, 10): white space, an optional sign, digits; NaN without a digit
parseInt10(text) ==
    LET t == SkipWhiteSpace(text)
        neg == t # <<>> /\ Head(t) = "-"
        ds == DigitPrefix(IF neg THEN Tail(t) ELSE t)
    IN IF ds = <<>> THEN [nan |-> TRUE, value |-> 0]
       ELSE [nan |-> FALSE, value |-> IF neg THEN 0 - DecimalValue(ds) ELSE DecimalValue(ds)]

\* x || 0 on a number: NaN and 0 are falsy
OrZero(n) == IF n.nan \/ n.value = 0 THEN 0 ELSE n.value

\* line 260: parseInt(process.argv[3] ?? '1', 10) || 0
safeDeleteFlag(arg) == OrZero(parseInt10(IF arg.present THEN arg.text ELSE <<"1">>))

\* line 261: Boolean(safeDeleteFlag), as the option the constructor receives
BooleanOf(n) == IF n # 0 THEN "true" ELSE "false"

\* line 19: (typeof options.safeDelete === 'boolean') ? options.safeDelete : true
ConstructorSafeDelete(opt) == IF TypeofBoolean(opt) THEN opt = "true" ELSE TRUE

\* the process or the caller before the executor is constructed
CliInit ==
    /\ \/ entryMode = "cli" /\ argv3 \in Argv3Values /\ options = "unset"
       \/ entryMode = "require" /\ argv3 = ArgAbsent /\ options \in OptionValues
    /\ delta \in [OpIds -> {SqlNull, "ok"}]
    /\ toRemove = Groups
    /\ deleted_at = [g \in Groups |-> 0]
    /\ now = 1
    /\ limit = MaxLimit
    /\ safeDelete = FALSE
    /\ runNo = 1
    /\ pc = "start"
    /\ exitCode = 0
    /\ connOpen = TRUE
    /\ allQueries = <<>>
    /\ fetchCalls = 0
    /\ results = {}
    /\ sdPhase = "notrun"
    /\ markedCount = 0
    /\ opState = <<>>
    /\ startCount = <<>>
    /\ applied = {}
    /\ running = 0
    /\ nextIdx = 1
    /\ done = FALSE
    /\ promise = "none"
    /\ processedCount = 0
    /\ successCount = 0
    /\ failedQueries = <<>>
    /\ log = {}
    /\ failuresFile = <<>>
    /\ summary = <<>>
    /\ issued = <<>>
    /\ lateRows = {}
    /\ snapshots = <<>>
    /\ passesInARow = 0
    /\ sigint = "none"
    /\ sigPc = "none"
    /\ refused = {}
    /\ WorkflowNotRunning
    /\ SrvIdle
    /\ DateIdle
    /\ RunnerIdle
    /\ IngestIdle

\* lines 257-261 with 16-20: the command line builds the executor (full execution)
CliMain ==
    /\ pc = "start"
    /\ entryMode = "cli"
    /\ options' = BooleanOf(safeDeleteFlag(argv3))
    /\ safeDelete' = ConstructorSafeDelete(options')
    /\ pc' = "authenticate"
    /\ UNCHANGED <<entryMode, argv3, srvVars, dateVars, runnerVars, ingestVars>>
    /\ UNCHANGED <<storeVars, histVars, limit, runNo, exitCode, connOpen, allQueries,
                   fetchCalls, guardVars, poolVars, applied, countVars, log, failuresFile,
                   summary, issued, lateRows, snapshots, sigVars, wfVars>>

\* lines 16-20: a caller constructs the executor and calls execute()
Construct ==
    /\ pc = "start"
    /\ entryMode = "require"
    /\ safeDelete' = ConstructorSafeDelete(options)
    /\ pc' = "authenticate"
    /\ UNCHANGED <<cliVars, srvVars, dateVars, runnerVars, ingestVars>>
    /\ UNCHANGED <<storeVars, histVars, limit, runNo, exitCode, connOpen, allQueries,
                   fetchCalls, guardVars, poolVars, applied, countVars, log, failuresFile,
                   summary, issued, lateRows, snapshots, sigVars, wfVars>>

\* lines 316-320: only the command line exits the process after execute()
CliModeExit == entryMode = "cli" /\ CliExit

CliNext ==
    \/ CliMain
    \/ Construct
    \/ Authenticate
    \/ FetchDeltaQueries
    \/ SafeDeleteSelect
    \/ SafeDeleteUpdate
    \/ NoQueries
    \/ ExecuteAllQueries
    \/ \E k \in DOMAIN opState : StoreExec(k)
    \/ \E k \in DOMAIN opState : Complete(k)
    \/ AfterExecuteAllQueries
    \/ Finally
    \/ CliModeExit

CliSpec == CliInit /\ [][CliNext]_vars

\* the executor has been constructed
Constructed == pc # "start"

\* C31: an executor constructed without a boolean safeDelete option has the
\* safe-delete pass enabled and runs it before any operation, and on the
\* command line the pass is disabled only when the second argument is 0.
C31_SafeDeleteOffOnlyByZero ==
    Constructed =>
        /\ (entryMode = "require" /\ ~TypeofBoolean(options)) => safeDelete
        /\ (safeDelete /\ promise # "none") => sdPhase = "done"
        /\ (entryMode = "cli" /\ ~safeDelete) => argv3 = [present |-> TRUE, text |-> <<"0">>]

\* ---- the upload server and FileProcessorService --------------------------------------

\* table names a client sends; "" is a request without tableName
Tables == {"t1", "t2"}
DefaultTable == "default_table"

\* everything outside the server
notSrvVars == <<engineVars, wfVars, cliVars, dateVars, runnerVars, ingestVars>>

SrvInit == EngineNotRunning /\ WorkflowNotRunning /\ OthersIdle

\* the next request is the lowest one that has not arrived
NextRequest(r) == req[r].kind = "none" /\ \A q \in 1..(r - 1) : req[q].kind # "none"

\* fileProcessorService.js 141 and 154-159: this.sequelize.close() closes
\* whatever connection the shared field holds at that moment
CloseShared(cs) ==
    IF thisSequelize = 0 THEN cs ELSE [cs EXCEPT ![thisSequelize] = "closed"]

\* fileProcessorService.js 94-98: only .csv and .xlsx are processed
Supported(ext) == ext \in {".csv", ".xlsx"}

\* part_000 276-288: the first of uploaded_file.csv, .xlsx, .xls that exists
possibleFiles == <<".csv", ".xlsx", ".xls">>
FoundFile ==
    IF uploadsDir[possibleFiles[1]] # 0 THEN possibleFiles[1]
    ELSE IF uploadsDir[possibleFiles[2]] # 0 THEN possibleFiles[2]
    ELSE IF uploadsDir[possibleFiles[3]] # 0 THEN possibleFiles[3]
    ELSE ""

\* part_000 298-308: the table name of the metadata file, else the fallback
ReprocessTable == IF metadataFile = "none" THEN DefaultTable ELSE metadataFile

\* fileProcessorService.js 89-98: processFile is called; an unsupported
\* extension throws at once and the catch closes the shared connection
CallProcessFile(r, rq) ==
    IF Supported(rq.ext)
    THEN /\ req' = [req EXCEPT ![r] = [rq EXCEPT !.st = "reading"]]
         /\ conns' = conns
    ELSE /\ req' = [req EXCEPT ![r] = [rq EXCEPT !.st = "rejected"]]
         /\ conns' = CloseShared(conns)

\* part_000 144-153 and 212-233: multer stores the file as uploaded_file<ext>,
\* then the handler checks tableName and calls processFile
UploadArrives(r, ext, table) ==
    /\ NextRequest(r)
    /\ uploadCount' = uploadCount + 1
    /\ uploadsDir' = [uploadsDir EXCEPT ![ext] = uploadCount + 1]
    /\ lastTable' = table
    /\ LET rq == [kind |-> "upload", st |-> "idle", ext |-> ext, content |-> uploadCount + 1,
                  table |-> table, expContent |-> uploadCount + 1, expTable |-> table]
       IN IF table = ""
          THEN /\ req' = [req EXCEPT ![r] = [rq EXCEPT !.st = "responded400"]]
               /\ conns' = conns
          ELSE CallProcessFile(r, rq)
    /\ UNCHANGED <<metadataFile, thisSequelize, notSrvVars>>

\* part_000 273-313: the handler looks for a stored file, reads the table name
\* of the metadata and calls processFile
ReprocessArrives(r) ==
    /\ NextRequest(r)
    /\ LET rq == [kind |-> "reprocess", st |-> "idle", ext |-> FoundFile,
                  content |-> IF FoundFile = "" THEN 0 ELSE uploadsDir[FoundFile],
                  table |-> ReprocessTable,
                  expContent |-> uploadCount, expTable |-> lastTable]
       IN IF FoundFile = ""
          THEN /\ req' = [req EXCEPT ![r] = [rq EXCEPT !.st = "responded404"]]
               /\ conns' = conns
          ELSE CallProcessFile(r, rq)
    /\ UNCHANGED <<uploadsDir, metadataFile, uploadCount, lastTable, thisSequelize, notSrvVars>>

\* fileProcessorService.js 100-113: the file was read; without rows the call
\* throws, else connectDB() makes the call's connection
ReadDone(r, rows) ==
    /\ req[r].st = "reading"
    /\ IF rows
       THEN /\ req' = [req EXCEPT ![r].st = "connecting"]
            /\ conns' = [conns EXCEPT ![r] = "open"]
       ELSE /\ req' = [req EXCEPT ![r].st = "rejected"]
            /\ conns' = CloseShared(conns)
    /\ UNCHANGED <<uploadsDir, metadataFile, uploadCount, lastTable, thisSequelize, notSrvVars>>

\* fileProcessorService.js 113-117: the await of connectDB() resumes, the
\* connection is stored in the shared field and the model is requested
Connected(r) ==
    /\ req[r].st = "connecting"
    /\ thisSequelize' = r
    /\ req' = [req EXCEPT ![r].st = "working"]
    /\ UNCHANGED <<uploadsDir, metadataFile, uploadCount, lastTable, conns, notSrvVars>>

\* fileProcessorService.js 117-160: the model and the inserts on the call's
\* own connection, then close() on the shared field, in the try or the catch
Inserted(r, ok) ==
    /\ req[r].st = "working"
    /\ req' = [req EXCEPT ![r].st = IF ok /\ conns[r] = "open" THEN "resolved" ELSE "rejected"]
    /\ conns' = CloseShared(conns)
    /\ UNCHANGED <<uploadsDir, metadataFile, uploadCount, lastTable, thisSequelize, notSrvVars>>

\* part_000 235-270 and 315-339: the handler resumes after processFile; a
\* successful upload writes the metadata file
Respond(r) ==
    /\ req[r].st \in {"resolved", "rejected"}
    /\ metadataFile' = IF req[r].kind = "upload" /\ req[r].st = "resolved"
                       THEN req[r].table ELSE metadataFile
    /\ req' = [req EXCEPT ![r].st = IF req[r].st = "resolved" THEN "responded200" ELSE "responded500"]
    /\ UNCHANGED <<uploadsDir, uploadCount, lastTable, thisSequelize, conns, notSrvVars>>

SrvNext ==
    \/ \E r \in ReqIds : \E ext \in Exts : \E table \in Tables \cup {""} : UploadArrives(r, ext, table)
    \/ \E r \in ReqIds : ReprocessArrives(r)
    \/ \E r \in ReqIds : \E rows \in BOOLEAN : ReadDone(r, rows)
    \/ \E r \in ReqIds : Connected(r)
    \/ \E r \in ReqIds : \E ok \in BOOLEAN : Inserted(r, ok)
    \/ \E r \in ReqIds : Respond(r)

SrvSpec == SrvInit /\ [][SrvNext]_vars

\* no request is between its arrival and its response
Responded(r) == req[r].st \in {"idle", "responded200", "responded400", "responded404", "responded500"}
Quiet == \A r \in ReqIds : Responded(r)

\* C32: once the requests so far have been answered, the only stored upload is
\* the most recent one, and every reprocess request handed processFile the
\* most recent upload with the table name sent with that upload.
C32_OnlyLatestUploadKept ==
    /\ (Quiet /\ uploadCount > 0) =>
          \A e \in Exts : uploadsDir[e] # 0 => uploadsDir[e] = uploadCount
    /\ \A r \in ReqIds :
          (req[r].kind = "reprocess" /\ req[r].expContent > 0) =>
              /\ req[r].content = req[r].expContent
              /\ req[r].table = req[r].expTable

\* C39: a processFile call that is still working has its connection open (no
\* other call closed it), and once every call has settled and been answered
\* no connection is left open.
C39_EachCallClosesItsOwn ==
    /\ \A r \in ReqIds : req[r].st = "working" => conns[r] = "open"
    /\ Quiet => \A r \in ReqIds : conns[r] # "open"

\* ---- order of admission --------------------------------------------------------------

\* C33: at every moment the started operations are a prefix of the fetched
\* list, which is in ascending order of id: no operation has been started
\* while an operation before it in the list has not.
C33_AdmittedInListOrder ==
    \A k \in DOMAIN startCount : \A j \in 1..(k - 1) :
        startCount[k] > 0 =>
            /\ startCount[j] > 0
            /\ allQueries[j].invoice_line_id < allQueries[k].invoice_line_id

\* the second operation has completed while the first, started before it, is
\* still in flight, and the third has been admitted
C33_Witness ==
    /\ Len(allQueries) = 3
    /\ opState = <<"sent", "done", "sent">>

\* ---- after a coordination error ------------------------------------------------------

\* C34: once an unexpected error has been reported, every later step starts no
\* operation, the promise of executeAllQueries is rejected and stays rejected
\* (a second error or the draining of the pool does not settle it again), and
\* an operation in flight is still in flight or completed afterwards.
C34_AfterCoordinationError ==
    [][("unexpectedError" \in log) =>
          /\ startCount' = startCount
          /\ promise = "rejected"
          /\ promise' = "rejected"
          /\ \A k \in DOMAIN opState :
                /\ opState[k] = "sent" => opState'[k] \in {"sent", "answered"}
                /\ opState[k] = "answered" => opState'[k] \in {"answered", "done"}]_vars

\* the first operation reported an unexpected error; the second, in flight at
\* that moment, failed afterwards and was added to failedQueries; the third
\* was never started
C34_Witness ==
    /\ "unexpectedError" \in log
    /\ promise = "rejected"
    /\ opState = <<"done", "done", "queued">>
    /\ Len(failedQueries) = 1
    /\ failedQueries[1].invoice_line_id = allQueries[2].invoice_line_id

\* ---- the failures file over several runs ---------------------------------------------

\* the staging source of one workflow unit: every row holds a statement
UnitDeltas == [OpIds -> {"ok", "bad"}]

\* the engine at the start of the first apply-delta stage, safe delete disabled
DateInit ==
    /\ delta \in UnitDeltas
    /\ toRemove = {}
    /\ deleted_at = [g \in Groups |-> 0]
    /\ now = 1
    /\ limit = 1
    /\ safeDelete = FALSE
    /\ runNo = 1
    /\ pc = "authenticate"
    /\ exitCode = 0
    /\ connOpen = TRUE
    /\ allQueries = <<>>
    /\ fetchCalls = 0
    /\ results = {}
    /\ sdPhase = "notrun"
    /\ markedCount = 0
    /\ opState = <<>>
    /\ startCount = <<>>
    /\ applied = {}
    /\ running = 0
    /\ nextIdx = 1
    /\ done = FALSE
    /\ promise = "none"
    /\ processedCount = 0
    /\ successCount = 0
    /\ failedQueries = <<>>
    /\ log = {}
    /\ failuresFile = <<>>
    /\ summary = <<>>
    /\ issued = <<>>
    /\ lateRows = {}
    /\ snapshots = <<>>
    /\ passesInARow = 0
    /\ sigint = "none"
    /\ sigPc = "none"
    /\ refused = {}
    /\ WorkflowNotRunning
    /\ OthersIdle

\* part_001 207-238 and execute_qlik_delta.js 256-261: the apply-delta stage of
\* the next unit starts the engine again, on the same date or a later one,
\* after the ingest stage has refilled the staging source
NextUnitRun(d, nd) ==
    /\ pc = "exited"
    /\ runNo < MaxRuns
    /\ d >= runDate
    /\ runDate' = d
    /\ delta' = nd
    /\ runNo' = runNo + 1
    /\ now' = now + 1
    /\ pc' = "authenticate"
    /\ exitCode' = 0
    /\ connOpen' = TRUE
    /\ allQueries' = <<>>
    /\ fetchCalls' = 0
    /\ results' = {}
    /\ sdPhase' = "notrun"
    /\ markedCount' = 0
    /\ opState' = <<>>
    /\ startCount' = <<>>
    /\ applied' = {}
    /\ running' = 0
    /\ nextIdx' = 1
    /\ done' = FALSE
    /\ promise' = "none"
    /\ processedCount' = 0
    /\ successCount' = 0
    /\ failedQueries' = <<>>
    /\ log' = {}
    /\ sigint' = "none"
    /\ sigPc' = "none"
    /\ refused' = {}
    /\ summary' = <<>>
    /\ issued' = <<>>
    /\ lateRows' = {}
    /\ snapshots' = <<>>
    /\ UNCHANGED <<toRemove, deleted_at, configVars, failuresFile, histVars>>
    /\ savedBefore' = filesByDate
    /\ UNCHANGED <<wfVars, cliVars, srvVars, runnerVars, ingestVars, filesByDate>>

DateNext ==
    \/ Authenticate
    \/ FetchDeltaQueries
    \/ ExecuteAllQueries
    \/ \E k \in DOMAIN opState : StoreExec(k)
    \/ \E k \in DOMAIN opState : Complete(k)
    \/ AfterExecuteAllQueries
    \/ Finally
    \/ CliExit
    \/ \E d \in Dates : \E nd \in UnitDeltas : NextUnitRun(d, nd)

DateSpec == DateInit /\ [][DateNext]_vars

\* C35: when a run has saved its failures, the file of the run's date holds
\* exactly the failed operations of this run, whatever an earlier run of the
\* same date had saved in it, and the files of the other dates are as they
\* were; until then every file is as it was when the run started.
C35_LaterRunReplacesFile ==
    IF "failuresSaved" \in log
    THEN /\ filesByDate[FailuresFileName(runDate)] = JsonStringify(failedQueries)
         /\ \A d \in Dates \ {FailuresFileName(runDate)} : filesByDate[d] = savedBefore[d]
    ELSE filesByDate = savedBefore

\* the second run of a date has saved its failures; the record of operation 1,
\* which the first run had saved, is in no file any more
C35_Witness ==
    /\ "failuresSaved" \in log
    /\ \E j \in 1..Len(savedBefore[runDate]) : savedBefore[runDate][j].invoice_line_id = 1
    /\ \A d \in Dates : \A j \in 1..Len(filesByDate[d]) :
          filesByDate[d][j].invoice_line_id # 1

\* ---- the failure log of a unit -------------------------------------------------------

\* the attempts of stage st of month m that ended with a failure
FailedAttempts(m, st) ==
    {i \in 1..Len(outcomes[m][st]) : ~CommandSucceeded(outcomes[m][st][i])}

\* the attempt sections of stage st in the failure log of month m
SectionsOf(m, st) ==
    {j \in 1..Len(failfile[m]) :
        /\ failfile[m][j].attempt > 0
        /\ failfile[m][j].output[1] = st}

IsPrefix(a, b) == Len(a) <= Len(b) /\ SubSeq(b, 1, Len(a)) = a

\* C36: at every moment the failure log of a unit holds one attempt section
\* for each attempt of a stage that has failed so far, that attempt's, also
\* when a later attempt succeeded and the unit ended as Succeeded; and every
\* step leaves what the log held in place and at most adds to its end.
C36_FailedAttemptLoggedAtOnce ==
    /\ [](\A m \in Months : \A st \in Stages :
            /\ Cardinality(SectionsOf(m, st)) = Cardinality(FailedAttempts(m, st))
            /\ \A i \in FailedAttempts(m, st) :
                  \E j \in SectionsOf(m, st) : failfile[m][j] = Section(i, Output(st, i)))
    /\ [][\A m \in Months : IsPrefix(failfile[m], failfile'[m])]_vars

\* a unit whose Part 1 failed once and then succeeded has ended as Succeeded
\* with a failure log of exactly that one section
C36_Witness ==
    \E m \in Months :
        /\ unitState[m] = "Succeeded"
        /\ outcomes[m][1] = <<1, 0>>
        /\ outcomes[m][2] = <<0>>
        /\ failfile[m] = <<Section(1, Output(1, 1))>>

\* ---- the sequential invoice-file runner ----------------------------------------------

\* everything outside the runner
notRunnerVars == <<engineVars, wfVars, cliVars, srvVars, dateVars, ingestVars>>

\* part_000 378-394: the script starts; any subset of the files is present
RunnerInit ==
    /\ EngineNotRunning
    /\ WorkflowNotRunning
    /\ CliIdle /\ SrvIdle /\ DateIdle /\ IngestIdle
    /\ fileExists \in [Files -> BOOLEAN]
    /\ fileIdx = 1
    /\ runnerPc = "loop"
    /\ runnerExit = 0
    /\ steps = <<>>

\* a runner that goes on with the next file when a step fails
OnStepFailureContinues(step) == "continue"

\* part_000 427-435: both else branches end the script with exit 1
OnStepFailure(step) == "exit"

\* part_000 427-435: a step of the current file has failed
StepFailed(step) ==
    IF OnStepFailure(step) = "exit"
    THEN /\ runnerPc' = "exited"
         /\ runnerExit' = 1
         /\ fileIdx' = fileIdx
    ELSE /\ runnerPc' = "loop"
         /\ runnerExit' = runnerExit
         /\ fileIdx' = fileIdx + 1

\* part_000 404-407: the file of this iteration is missing: continue
FileNotFound ==
    /\ runnerPc = "loop"
    /\ fileIdx \in Files
    /\ ~fileExists[fileIdx]
    /\ fileIdx' = fileIdx + 1
    /\ UNCHANGED <<fileExists, runnerPc, runnerExit, steps, notRunnerVars>>

\* part_000 409-414 and 431-435: step 1, node read-file-2-db.js, has ended
Step1(status) ==
    /\ runnerPc = "loop"
    /\ fileIdx \in Files
    /\ fileExists[fileIdx]
    /\ steps' = Append(steps, <<fileIdx, 1, status>>)
    /\ IF CommandSucceeded(status)
       THEN /\ runnerPc' = "step2"
            /\ UNCHANGED <<fileIdx, runnerExit>>
       ELSE StepFailed(1)
    /\ UNCHANGED <<fileExists, notRunnerVars>>

\* part_000 416-430 and 437-443: step 2, node execute_qlik_delta.js, has ended
Step2(status) ==
    /\ runnerPc = "step2"
    /\ steps' = Append(steps, <<fileIdx, 2, status>>)
    /\ IF CommandSucceeded(status)
       THEN /\ runnerPc' = "loop"
            /\ fileIdx' = fileIdx + 1
            /\ runnerExit' = runnerExit
       ELSE StepFailed(2)
    /\ UNCHANGED <<fileExists, notRunnerVars>>

\* part_000 445: the list is exhausted, the script ends with status 0
AllProcessed ==
    /\ runnerPc = "loop"
    /\ fileIdx \notin Files
    /\ runnerPc' = "finished"
    /\ UNCHANGED <<fileExists, fileIdx, runnerExit, steps, notRunnerVars>>

RunnerNext ==
    \/ FileNotFound
    \/ \E status \in CmdStatuses : Step1(status)
    \/ \E status \in CmdStatuses : Step2(status)
    \/ AllProcessed

RunnerSpec == RunnerInit /\ [][RunnerNext]_vars

\* the steps run for file f, in order
StepsOf(f) == SelectSeq(steps, LAMBDA e : e[1] = f)

\* C37: the commands run so far are in file order; a file has at most step 1
\* then step 2, each run once, step 2 only after its step 1 succeeded; a file
\* is taken up only when every earlier file is missing or has completed both
\* steps; a missing file has no step; a failed step is the last command run
\* and ends the script with status 1.
C37_SequentialRunner ==
    /\ \A i \in 1..Len(steps) : \A j \in 1..Len(steps) :
          i < j => \/ steps[i][1] < steps[j][1]
                   \/ /\ steps[i][1] = steps[j][1]
                      /\ steps[i][2] = 1 /\ steps[j][2] = 2 /\ j = i + 1
                      /\ CommandSucceeded(steps[i][3])
    /\ \A f \in Files :
          /\ StepsOf(f) # <<>> => StepsOf(f)[1][2] = 1
          /\ ~fileExists[f] => StepsOf(f) = <<>>
          /\ StepsOf(f) # <<>> =>
                \A g \in 1..(f - 1) :
                    \/ ~fileExists[g]
                    \/ /\ Len(StepsOf(g)) = 2
                       /\ CommandSucceeded(StepsOf(g)[2][3])
    /\ \A i \in 1..Len(steps) :
          ~CommandSucceeded(steps[i][3]) =>
              /\ i = Len(steps)
              /\ runnerPc = "exited"
              /\ runnerExit = 1
    /\ runnerPc = "exited" => runnerExit = 1
    /\ runnerPc = "exited" => ~CommandSucceeded(steps[Len(steps)][3])

\* the first file was missing and skipped, the second completed both steps,
\* the third failed in step 2 and the script ended with status 1
C37_Witness ==
    /\ ~fileExists[1]
    /\ steps = <<<<2, 1, 0>>, <<2, 2, 0>>, <<3, 1, 0>>, <<3, 2, 1>>>>
    /\ runnerPc = "exited"
    /\ runnerExit = 1

\* ---- the ingest command inside the workflow ------------------------------------------

\* how a run of read-file-2-db.js goes after its argument checks: through, no
\* rows in the file, an error thrown while reading the file, or an error
\* thrown on the database (connect, schema, insert)
IngestErrors == {"readError", "dbError"}
IngestOutcomes == {"ok", "noData"} \cup IngestErrors

\* a read-file-2-db.js whose catch ends the process with status 1
IngestExitStatusFailing(argsGiven, outcome) ==
    IF ~argsGiven THEN 1
    ELSE IF outcome \in IngestErrors THEN 1
    ELSE 0

\* part_001 11-23 and 108-163: process.exit(1) in the argument checks only;
\* the return of line 116 and the catch of lines 160-162 set no status
IngestExitStatus(argsGiven, outcome) ==
    IF ~argsGiven THEN 1
    ELSE IF outcome \in IngestErrors THEN 0
    ELSE 0

\* part_001 219: cmd1 && cmd2; the second runs only when the first exits 0
AndList(status1, status2) == IF status1 # 0 THEN status1 ELSE status2

\* the script starts on fresh failure logs
IngestInit ==
    /\ EngineNotRunning
    /\ OthersIdle
    /\ invoiceExists \in [Months -> BOOLEAN]
    /\ staleLog = FALSE
    /\ mm = 1
    /\ wfPc = "loop"
    /\ stage = 1
    /\ attempt = 1
    /\ failfile = [m \in Months |-> <<>>]
    /\ runningCmds = {}
    /\ outcomes = [m \in Months |-> [st \in Stages |-> <<>>]]
    /\ unitState = [m \in Months |-> "Pending"]
    /\ visited = <<>>

\* part_001 219-221: Part 1 ends: the conversion, then (when it exited 0) the
\* ingest with both arguments given
EndPart1(convert, outcome) ==
    /\ stage = 1
    /\ CommandEnds(AndList(convert, IngestExitStatus(TRUE, outcome)))
    /\ ingestLog' = [ingestLog EXCEPT
                        ![mm] = Append(@, IF convert = 0 THEN outcome ELSE "notRun")]
    /\ UNCHANGED <<engineVars, cliVars, srvVars, dateVars, runnerVars>>

\* part_001 228-230: Part 2 ends with some exit status
EndPart2(status) ==
    /\ stage = 2
    /\ CommandEnds(status)
    /\ UNCHANGED <<engineVars, otherVars>>

IngestNext ==
    \/ SkipMissing
    \/ BeginMonth
    \/ StartAttempt
    \/ \E convert \in CmdStatuses : \E outcome \in IngestOutcomes : EndPart1(convert, outcome)
    \/ \E status \in CmdStatuses : EndPart2(status)
    \/ RetryExhausted
    \/ Finish

IngestSpec == IngestInit /\ [][IngestNext]_vars

====
